---- MODULE Spec2Model ----
(***************************************************************************)
(* Model of go-mantis-shrimp.  The Cron component: the Redis Storage       *)
(* adapter for Schedules (cron/storage/redis.go and search.lua), the       *)
(* Schedule filter (cron/schedule/schedule.go) and the poll / filter /     *)
(* dispatch pipeline of cmd/ms_watch_cron.  The Watches and Actions: the   *)
(* health check Watch, the wrappers that encode and decode Watches and     *)
(* Actions by their type, the storage factory, and the trigger endpoint    *)
(* of cmd/ms_watch_api.                                                    *)
(*                                                                         *)
(* Time is a discrete clock `now`; a Redis command is one atomic step, a   *)
(* Lua script (EVAL) is one atomic step, and goroutines and storage        *)
(* clients interleave between commands.  Strings are sequences of          *)
(* one-character strings, so that strconv and strings.Join/Split are       *)
(* modelled by what they do.                                               *)
(***************************************************************************)
EXTENDS Integers, Sequences, FiniteSets, TLC

VARIABLES
    now,         \* the wall clock, time.Now()
    window,      \* cronConfig.SearchInterval, the poll interval
    redis,       \* the Redis database: the Schedule Hashes and the three Sorted Sets
                 \* (in SpecWatchAPI, the Watches of the Watch storage by id)
    ops,         \* storage writes (Create / Update) between two Redis commands
    returned,    \* ids returned by the Create calls that have completed, in order
    started,     \* number of Create and of Update calls the storage clients began
    found,       \* what the latest Storage.Search call returned
    spc,         \* position of the search goroutine of ms_watch_cron
    pending,     \* candidate Schedules not yet sent on the schedules channel
    wake,        \* the instant the search goroutine's time.Sleep ends
    cycle,       \* number of Search calls the pipeline has made
    runs,        \* run goroutines: one per candidate Schedule received
    busy,        \* the trigger loop of main: Nil, or the Watch ID inside TriggerByID
    log,         \* history of the pipeline: filter results, trigger calls, updates
    reply,       \* the latest call made on a component's interface and what it returned
                 \* (for a request of the Watch API, with the goroutines it started)
    storageFactories   \* the engines registered in the storageFactories map of the process

vars == <<now, window, redis, ops, returned, started,
          found, spc, pending, wake, cycle, runs, busy, log, reply,
          storageFactories>>

cronVars == <<spc, pending, wake, cycle, runs, busy, log>>

(***************************************************************************)
(* Bounds of the model.                                                    *)
(***************************************************************************)
MaxTime    == 2   \* the clock runs from 1 to MaxTime
MaxCreates == 2   \* Create calls made by the storage clients
MaxUpdates == 1   \* Update calls made by storage clients other than the pipeline
MaxCycles  == 2   \* Search calls made by the pipeline
MaxWindow  == 2   \* the poll interval is one of 1..MaxWindow
MaxSearchTime == 4   \* the clock of SpecSearch runs from 1 to MaxSearchTime
MaxCronTime == 3   \* the clock of SpecCron runs from 1 to MaxCronTime
MaxE2ETime == 7   \* the clock of SpecE2E runs from 1 to MaxE2ETime

\* A nil *time.Time.
Nil == -1

Times == 1..MaxTime

(***************************************************************************)
(* strconv and strings.                                                    *)
(***************************************************************************)
DigitChars == <<"0", "1", "2", "3", "4", "5", "6", "7", "8", "9">>

DigitVal(c) == CHOOSE d \in 0..9 : DigitChars[d + 1] = c

IsDigit(c) == \E d \in 0..9 : DigitChars[d + 1] = c

RECURSIVE Itoa(_)
Itoa(n) ==
    IF n < 0 THEN <<"-">> \o Itoa(-n)
    ELSE IF n < 10 THEN <<DigitChars[n + 1]>>
    ELSE Itoa(n \div 10) \o <<DigitChars[(n % 10) + 1]>>

RECURSIVE DigitsVal(_)
DigitsVal(s) ==
    IF s = <<>> THEN 0
    ELSE 10 * DigitsVal(SubSeq(s, 1, Len(s) - 1)) + DigitVal(s[Len(s)])

\* strconv.Atoi / strconv.ParseInt(s, 10, 64): an optional sign, then one or
\* more decimal digits; anything else is an error.
Atoi(s) ==
    LET signed == Len(s) > 0 /\ s[1] \in {"-", "+"}
        body   == IF signed THEN Tail(s) ELSE s
        ok     == Len(body) > 0 /\ \A i \in 1..Len(body) : IsDigit(body[i])
    IN  [ok  |-> ok,
         val |-> IF ~ok THEN 0
                 ELSE IF signed /\ s[1] = "-" THEN 0 - DigitsVal(body)
                 ELSE DigitsVal(body)]

\* strings.Join(elems, ",")
RECURSIVE Join(_)
Join(elems) ==
    IF elems = <<>> THEN <<>>
    ELSE IF Len(elems) = 1 THEN elems[1]
    ELSE elems[1] \o <<",">> \o Join(Tail(elems))

\* strings.Split(s, ","): the empty string splits into one empty element.
RECURSIVE Split(_)
Split(s) ==
    IF \A i \in 1..Len(s) : s[i] # ","
    THEN <<s>>
    ELSE LET p == CHOOSE i \in 1..Len(s) :
                      s[i] = "," /\ \A j \in 1..(i - 1) : s[j] # ","
         IN  <<SubSeq(s, 1, p - 1)>> \o Split(SubSeq(s, p + 1, Len(s)))

(***************************************************************************)
(* Conversion between Schedule objects and Redis Hash fields.              *)
(***************************************************************************)
idsToHashField(aIntIDs) ==
    Join([k \in 1..Len(aIntIDs) |-> Itoa(aIntIDs[k])])

idsFromHashField(sStringIDs) ==
    LET aStringIDs == Split(sStringIDs)
        parsed     == [i \in 1..Len(aStringIDs) |-> Atoi(aStringIDs[i])]
    IN  IF \A i \in 1..Len(parsed) : parsed[i].ok
        THEN [err |-> FALSE, val |-> [i \in 1..Len(parsed) |-> parsed[i].val]]
        ELSE [err |-> TRUE, val |-> <<>>]

durationFromHashField(sDuration) ==
    LET r == Atoi(sDuration) IN [err |-> ~r.ok, val |-> r.val]

\* boolFromHashField reading every value other than "1" as false.
boolFromHashFieldLenient(sBool) == [err |-> FALSE, val |-> sBool = <<"1">>]

boolFromHashField(sBool) ==
    IF sBool = <<"1">> THEN [err |-> FALSE, val |-> TRUE]
    ELSE IF sBool = <<"0">> THEN [err |-> FALSE, val |-> FALSE]
    ELSE [err |-> TRUE, val |-> FALSE]

timeToHashField(time) == IF time = Nil THEN 0 ELSE time

timeFromHashField(sTime) ==
    LET r == Atoi(sTime) IN [err |-> ~r.ok, val |-> r.val]

\* The fields HMSET writes; a bool argument is sent to Redis as "1" or "0".
toHashFields(schedule) ==
    LET optional == {<<"start", schedule.Start>>, <<"stop", schedule.Stop>>,
                     <<"last", schedule.Last>>,
                     <<"created_at", schedule.CreatedAt>>,
                     <<"updated_at", schedule.UpdatedAt>>}
        present  == {p \in optional : p[2] # Nil}
        names    == {"watches_ids", "interval", "enabled"} \cup {p[1] : p \in present}
    IN  [f \in names |->
            IF f = "watches_ids" THEN idsToHashField(schedule.WatchesIDs)
            ELSE IF f = "interval" THEN Itoa(schedule.Interval)
            ELSE IF f = "enabled" THEN (IF schedule.Enabled THEN <<"1">> ELSE <<"0">>)
            ELSE Itoa((CHOOSE p \in present : p[1] = f)[2])]

\* kvHash[key] of a Go map: the empty string when the key is missing.
Field(kvHash, key) == IF key \in DOMAIN kvHash THEN kvHash[key] ELSE <<>>

OptTime(kvHash, key) ==
    IF key \in DOMAIN kvHash THEN timeFromHashField(kvHash[key])
    ELSE [err |-> FALSE, val |-> Nil]

fromHashFields(kvHash) ==
    LET id       == IF "id" \in DOMAIN kvHash
                    THEN LET r == Atoi(kvHash["id"]) IN [err |-> ~r.ok, val |-> r.val]
                    ELSE [err |-> FALSE, val |-> 0]
        wids     == idsFromHashField(Field(kvHash, "watches_ids"))
        interval == durationFromHashField(Field(kvHash, "interval"))
        enabled  == boolFromHashField(Field(kvHash, "enabled"))
        start    == OptTime(kvHash, "start")
        stop     == OptTime(kvHash, "stop")
        last     == OptTime(kvHash, "last")
        created  == OptTime(kvHash, "created_at")
        updated  == OptTime(kvHash, "updated_at")
        err      == \/ id.err \/ wids.err \/ interval.err \/ enabled.err
                    \/ start.err \/ stop.err \/ last.err \/ created.err \/ updated.err
    IN  [err      |-> err,
         schedule |-> [ID |-> id.val, Start |-> start.val, Stop |-> stop.val,
                       Interval |-> interval.val, WatchesIDs |-> wids.val,
                       Enabled |-> enabled.val, Last |-> last.val,
                       CreatedAt |-> created.val, UpdatedAt |-> updated.val]]

\* fromHashes: the first record that fails to decode fails the whole batch.
fromHashes(hashSet) ==
    IF \E h \in hashSet : fromHashFields(h).err
    THEN [err |-> TRUE, schedules |-> {}]
    ELSE [err |-> FALSE, schedules |-> {fromHashFields(h).schedule : h \in hashSet}]

\* A nil error, or a nil pointer to a struct.
NilValue == [nil |-> TRUE]

\* The error fmt.Errorf returns.
Errorf(msg) == [msg |-> msg]

\* The error value strconv returns: *NumError{Func, Num, ErrSyntax}.
NumError(func, num) == [Func |-> func, Num |-> num]

\* The error idsFromHashField returns: that of the first element Atoi rejects.
idsFromHashFieldError(sStringIDs) ==
    LET aStringIDs == Split(sStringIDs)
        bad        == {i \in 1..Len(aStringIDs) : ~Atoi(aStringIDs[i]).ok}
    IN  IF bad = {} THEN NilValue
        ELSE NumError("Atoi", aStringIDs[CHOOSE i \in bad : \A j \in bad : i <= j])

\* The error timeFromHashField returns for an optional field.
OptTimeError(kvHash, key) ==
    IF OptTime(kvHash, key).err THEN NumError("ParseInt", kvHash[key]) ELSE NilValue

\* The error fromHashFields returns: that of the first conversion that fails,
\* in the order of the code.
fromHashFieldsError(kvHash) ==
    IF "id" \in DOMAIN kvHash /\ ~Atoi(kvHash["id"]).ok
    THEN NumError("Atoi", kvHash["id"])
    ELSE IF idsFromHashField(Field(kvHash, "watches_ids")).err
    THEN idsFromHashFieldError(Field(kvHash, "watches_ids"))
    ELSE IF durationFromHashField(Field(kvHash, "interval")).err
    THEN NumError("ParseInt", Field(kvHash, "interval"))
    ELSE IF boolFromHashField(Field(kvHash, "enabled")).err
    THEN Errorf("non boolean value stored in the enabled field")
    ELSE LET failed == {i \in 1..5 :
                 OptTimeError(kvHash,
                     <<"start", "stop", "last", "created_at", "updated_at">>[i]) # NilValue}
         IN  IF failed = {} THEN NilValue
             ELSE OptTimeError(kvHash,
                      <<"start", "stop", "last", "created_at", "updated_at">>[
                          CHOOSE i \in failed : \A j \in failed : i <= j])

(***************************************************************************)
(* Redis.  hashes: id -> the Hash at key "schedule:<id>" (field -> value); *)
(* ids: the members of the Sorted Set "schedules" (score = id); start and  *)
(* stop: id -> score in "schedules_start_index" / "schedules_stop_index".  *)
(***************************************************************************)
EmptyRedis == [hashes |-> <<>>, ids |-> {}, start |-> <<>>, stop |-> <<>>]

\* f with x mapped to v (x added to the domain when it is not there).
Put(f, x, v) == [y \in (DOMAIN f) \cup {x} |-> IF y = x THEN v ELSE f[y]]

\* HGETALL key: the empty Hash when the key does not exist.
HGETALL(rd, id) == IF id \in DOMAIN rd.hashes THEN rd.hashes[id] ELSE <<>>

\* HMSET key field value ...: sets the given fields, keeps the others.
HMSET(rd, id, fields) ==
    LET old == HGETALL(rd, id)
        new == [f \in (DOMAIN old) \cup (DOMAIN fields) |->
                   IF f \in DOMAIN fields THEN fields[f] ELSE old[f]]
    IN  [rd EXCEPT !.hashes = Put(rd.hashes, id, new)]

ZADDID(rd, id) == [rd EXCEPT !.ids = rd.ids \cup {id}]

ZADDStart(rd, id, score) == [rd EXCEPT !.start = Put(rd.start, id, score)]

ZADDStop(rd, id, score) == [rd EXCEPT !.stop = Put(rd.stop, id, score)]

\* generateID without its read of the index.
generateIDFirst(rd) == 1

\* ZREVRANGE schedules 0 0 WITHSCORES, then latest + 1; 1 on an empty index.
generateID(rd) ==
    IF rd.ids = {} THEN 1
    ELSE (CHOOSE m \in rd.ids : \A o \in rd.ids : o <= m) + 1

(***************************************************************************)
(* search.lua, run atomically by EVAL with ARGV[2] = T1 and ARGV[3] = T2.  *)
(***************************************************************************)
\* ZRANGEBYSCORE start_index -inf (T2
StartCandidates(rd, T2) == {id \in DOMAIN rd.start : rd.start[id] < T2}

\* ZRANGEBYSCORE stop_index T1 +inf
StopCandidates(rd, T1) == {id \in DOMAIN rd.stop : rd.stop[id] >= T1}

\* The filter without its test of the enabled field.
LuaKeepsDisabled(hash, T2) ==
    ~ /\ "last" \in DOMAIN hash
      /\ Atoi(hash["last"]).val + Atoi(Field(hash, "interval")).val >= T2

\* The filter without its test of last + interval.
LuaKeepsLate(hash, T2) == Field(hash, "enabled") # <<"0">>

\* The filter of the script: a candidate is removed when it is disabled or
\* when last + interval >= T2.
LuaKeeps(hash, T2) ==
    ~ \/ Field(hash, "enabled") = <<"0">>
      \/ /\ "last" \in DOMAIN hash
         /\ Atoi(hash["last"]).val + Atoi(Field(hash, "interval")).val >= T2

\* The Hashes the script returns, each with its "id" field appended.
SearchScript(rd, T1, T2) ==
    LET candidates == StartCandidates(rd, T2) \cup StopCandidates(rd, T1)
    IN  {Put(HGETALL(rd, id), "id", Itoa(id)) :
            id \in {c \in candidates : LuaKeeps(HGETALL(rd, c), T2)}}

\* Redis.Search(pollInterval) called at instant T1.
Search(rd, T1, pollInterval) ==
    fromHashes(SearchScript(rd, T1, T1 + pollInterval))

\* Redis.Get(scheduleID)
Get(rd, scheduleID) ==
    LET r == fromHashFields(HGETALL(rd, scheduleID))
    IN  [err |-> r.err, schedule |-> [r.schedule EXCEPT !.ID = scheduleID]]

(***************************************************************************)
(* Storage writes.  Redis.set issues four commands (HMSET, then one ZADD   *)
(* per index); an entry of ops is a set call between two of them.          *)
(***************************************************************************)
\* A Schedule as a caller hands it to Create: no ID, no timestamps.
NewSchedule(start, stop, interval, wids, enabled, last) ==
    [ID |-> 0, Start |-> start, Stop |-> stop, Interval |-> interval,
     WatchesIDs |-> wids, Enabled |-> enabled, Last |-> last,
     CreatedAt |-> Nil, UpdatedAt |-> Nil]

\* Redis.Create up to the call of set: generateID, then CreatedAt.
\* Redis.set up to HMSET: UpdatedAt when updateTimestamp.
\* The timestamps with the Last of run's goroutine left out.
StampedWithoutLast(op, t) ==
    LET c == IF op.kind = "create" /\ op.schedule.CreatedAt = Nil
             THEN [op.schedule EXCEPT !.CreatedAt = t] ELSE op.schedule
    IN  IF op.updateTimestamp THEN [c EXCEPT !.UpdatedAt = t] ELSE c

\* run's goroutine, before it calls Update: Last = time.Now().
Stamped(op, t) ==
    LET c == IF op.kind = "create" /\ op.schedule.CreatedAt = Nil
             THEN [op.schedule EXCEPT !.CreatedAt = t]
             ELSE IF op.kind = "last" THEN [op.schedule EXCEPT !.Last = t]
             ELSE op.schedule
    IN  IF op.updateTimestamp THEN [c EXCEPT !.UpdatedAt = t] ELSE c

\* A panic ends the process of ms_watch_cron and with it every goroutine.
Alive == spc # "panic"

\* The writes of the pipeline stop with its process; those of the storage
\* clients do not.
OpAlive(op) == op.kind = "last" => Alive

NoCall == [n |-> 0, watch |-> Nil, outcome |-> [net |-> "none"],
           requests |-> <<>>, err |-> "nil"]

\* filtered, recorded, triggered: the filter steps, the stored values of
\* last and the IDs handed to the trigger loop; call: the last call of
\* sdk.TriggerByID that returned; errors: the Watch IDs whose error the
\* trigger loop printed; results: what the storage operations returned that
\* were called on a storage with no client.
NoLog == [filtered |-> {}, recorded |-> {}, triggered |-> {},
          call |-> NoCall, errors |-> {}, results |-> {}]

\* No call made yet.
NoReply == [op |-> "none"]

NoFound == [n |-> 0, T1 |-> 0, T2 |-> 0, err |-> FALSE, schedules |-> {}]

Advance(op, pc) == (ops \ {op}) \cup {[op EXCEPT !.pc = pc]}

\* Create: generateID (one Redis command); set follows.
CreateBegin(s) ==
    /\ started.create < MaxCreates
    /\ started' = [started EXCEPT !.create = @ + 1]
    /\ ops' = ops \cup {[kind |-> "create", n |-> started.create + 1,
                          cycle |-> 0, T1 |-> 0, T2 |-> 0,
                          id |-> generateID(redis), schedule |-> s,
                          updateTimestamp |-> TRUE, pc |-> "HMSET"]}
    /\ UNCHANGED <<storageFactories, reply, now, window, redis, returned, found, cronVars>>

\* Update(schedule, updateTimestamp) by a storage client: set follows.
UpdateBegin(s, updateTimestamp) ==
    /\ started.update < MaxUpdates
    /\ started' = [started EXCEPT !.update = @ + 1]
    /\ ops' = ops \cup {[kind |-> "update", n |-> started.update + 1,
                          cycle |-> 0, T1 |-> 0, T2 |-> 0,
                          id |-> s.ID, schedule |-> s,
                          updateTimestamp |-> updateTimestamp, pc |-> "HMSET"]}
    /\ UNCHANGED <<storageFactories, reply, now, window, redis, returned, found, cronVars>>

SetHMSET(op) ==
    /\ op.pc = "HMSET" /\ OpAlive(op)
    /\ LET schedule == Stamped(op, now)
       IN  /\ redis' = HMSET(redis, op.id, toHashFields(schedule))
           /\ ops' = (ops \ {op}) \cup {[op EXCEPT !.pc = "ZADDID", !.schedule = schedule]}
           /\ log' = IF op.kind = "last"
                     THEN [log EXCEPT !.recorded = @ \cup
                              {[cycle |-> op.cycle, T1 |-> op.T1, T2 |-> op.T2,
                                id |-> op.id, last |-> schedule.Last]}]
                     ELSE log
    /\ UNCHANGED <<storageFactories, reply, now, window, returned, started, found,
                   spc, pending, wake, cycle, runs, busy>>

SetZADDID(op) ==
    /\ op.pc = "ZADDID" /\ OpAlive(op)
    /\ redis' = ZADDID(redis, op.id)
    /\ ops' = Advance(op, "ZADDStart")
    /\ UNCHANGED <<storageFactories, reply, now, window, returned, started, found, cronVars>>

SetZADDStart(op) ==
    /\ op.pc = "ZADDStart" /\ OpAlive(op)
    /\ redis' = ZADDStart(redis, op.id, timeToHashField(op.schedule.Start))
    /\ ops' = Advance(op, "ZADDStop")
    /\ UNCHANGED <<storageFactories, reply, now, window, returned, started, found, cronVars>>

\* The last command of set; Create then returns the id.
SetZADDStop(op) ==
    /\ op.pc = "ZADDStop" /\ OpAlive(op)
    /\ redis' = ZADDStop(redis, op.id, timeToHashField(op.schedule.Stop))
    /\ ops' = ops \ {op}
    /\ returned' = IF op.kind = "create" THEN Append(returned, op.id) ELSE returned
    /\ UNCHANGED <<storageFactories, reply, now, window, started, found, cronVars>>

SetStep == \E op \in ops :
    SetHMSET(op) \/ SetZADDID(op) \/ SetZADDStart(op) \/ SetZADDStop(op)

\* Storage.Search(window) called by a storage client.
SearchCall ==
    /\ found' = [n |-> 1, T1 |-> now, T2 |-> now + window] @@ Search(redis, now, window)
    /\ UNCHANGED <<storageFactories, reply, now, window, redis, ops, returned, started, cronVars>>

\* The clock advances, up to the instant max.
TickTo(max) ==
    /\ now < max
    /\ now' = now + 1
    /\ UNCHANGED <<storageFactories, reply, window, redis, ops, returned, started, found, cronVars>>

\* set run from its first to its last command with no other command between.
SetAll(rd, id, schedule) ==
    ZADDStop(ZADDStart(ZADDID(HMSET(rd, id, toHashFields(schedule)), id),
                       id, timeToHashField(schedule.Start)),
             id, timeToHashField(schedule.Stop))

\* The database after a Create(s) that ran alone at instant t.
Created(rd, s, t) ==
    SetAll(rd, generateID(rd),
           Stamped([kind |-> "create", schedule |-> s, updateTimestamp |-> TRUE], t))

(***************************************************************************)
(* Spec: storage clients call Create, Update and Search concurrently.      *)
(***************************************************************************)
CreateInputs ==
    {NewSchedule(start, stop, 1, <<7>>, TRUE, Nil) :
        start \in {Nil, 2}, stop \in {Nil, 3}}

UpdateInputs ==
    {[s EXCEPT !.ID = id] :
        s \in {NewSchedule(Nil, Nil, 1, <<7>>, FALSE, Nil),
               NewSchedule(1, 2, 1, <<7>>, TRUE, Nil)},
        id \in 1..MaxCreates}

CronIdle ==
    /\ spc = "idle" /\ pending = {} /\ wake = 0 /\ cycle = 0
    /\ runs = {} /\ busy = Nil /\ log = NoLog /\ reply = NoReply
    /\ storageFactories = {"redis"}

Init ==
    /\ now = 1
    /\ window = 1
    /\ redis = EmptyRedis
    /\ ops = {}
    /\ returned = <<>>
    /\ started = [create |-> 0, update |-> 0]
    /\ found = NoFound
    /\ CronIdle

Next ==
    \/ \E s \in CreateInputs : CreateBegin(s)
    \/ \E s \in UpdateInputs, ts \in BOOLEAN : UpdateBegin(s, ts)
    \/ SetStep
    \/ TickTo(MaxTime)

Spec == Init /\ [][Next]_vars

(***************************************************************************)
(* SpecSearch: Search applied to the databases that one or two Create      *)
(* calls leave, at every instant and poll interval, while one Update by a  *)
(* storage client may be under way.                                        *)
(***************************************************************************)
SearchInputs ==
    {NewSchedule(start, stop, interval, wids, enabled, last) :
        start \in {Nil, 3}, stop \in {Nil, 2}, interval \in {1, 2},
        wids \in {<<7>>, <<>>}, enabled \in BOOLEAN, last \in {Nil, 1}}

SecondInputs ==
    {NewSchedule(Nil, Nil, 1, <<8>>, TRUE, Nil),
     NewSchedule(Nil, Nil, 1, <<>>, TRUE, Nil)}

SearchUpdates ==
    {[NewSchedule(Nil, 2, 1, <<7>>, enabled, last) EXCEPT !.ID = 1] :
        enabled \in BOOLEAN, last \in {Nil, 2}}

InitSearch ==
    /\ now = 1
    /\ window \in 1..MaxWindow
    /\ \E s \in SearchInputs :
          \/ redis = Created(EmptyRedis, s, 1)
          \/ \E s2 \in SecondInputs :
                redis = Created(Created(EmptyRedis, s, 1), s2, 1)
    /\ ops = {}
    /\ returned = <<>>
    /\ started = [create |-> 0, update |-> 0]
    /\ found = NoFound
    /\ CronIdle

NextSearch ==
    \/ SearchCall
    \/ \E s \in SearchUpdates : UpdateBegin(s, TRUE)
    \/ SetStep
    \/ TickTo(MaxSearchTime)

SpecSearch == InitSearch /\ [][NextSearch]_vars

(***************************************************************************)
(* SpecUpdate: one Update by a storage client, with any Schedule the data  *)
(* model allows, on an empty database or on one that holds a Schedule with *)
(* every optional field set.                                               *)
(***************************************************************************)
UpdateSchedules ==
    {[ID |-> 1, Start |-> start, Stop |-> stop, Interval |-> 1,
      WatchesIDs |-> wids, Enabled |-> enabled, Last |-> last,
      CreatedAt |-> created, UpdatedAt |-> updated] :
        start \in {Nil, 2}, stop \in {Nil, 3}, wids \in {<<>>, <<7>>, <<7, 10>>},
        enabled \in BOOLEAN, last \in {Nil, 1}, created \in {Nil, 1},
        updated \in {Nil, 1}}

\* The Schedule of the database that is not empty.
FullSchedule == [NewSchedule(2, 3, 1, <<9>>, TRUE, 1) EXCEPT !.CreatedAt = 1]

InitUpdate ==
    /\ now = 1
    /\ window = 1
    /\ redis \in {EmptyRedis, Created(EmptyRedis, FullSchedule, 1)}
    /\ ops = {}
    /\ returned = <<>>
    /\ started = [create |-> 0, update |-> 0]
    /\ found = NoFound
    /\ CronIdle

NextUpdate ==
    \/ \E s \in UpdateSchedules, ts \in BOOLEAN : UpdateBegin(s, ts)
    \/ SetStep
    \/ TickTo(MaxTime)

SpecUpdate == InitUpdate /\ [][NextUpdate]_vars

(***************************************************************************)
(* The pipeline of cmd/ms_watch_cron: the search goroutine, one run        *)
(* goroutine per candidate Schedule, one goroutine per Update of last, and *)
(* the trigger loop of main.  The channels are unbuffered: a send and its  *)
(* receive are one step.                                                   *)
(***************************************************************************)
\* Schedule.Do without its test of Start.
DoWithoutStart(schedule, t) ==
    IF schedule.Stop = Nil \/ t < schedule.Stop THEN schedule.WatchesIDs ELSE <<>>

\* Schedule.Do at instant t: the Watch IDs, or nil outside (Start, Stop).
Do(schedule, t) ==
    LET afterStart == schedule.Start = Nil \/ t > schedule.Start
        beforeEnd  == schedule.Stop = Nil \/ t < schedule.Stop
    IN  IF afterStart /\ beforeEnd THEN schedule.WatchesIDs ELSE <<>>

\* search: Storage.Search succeeds.
CronSearch ==
    /\ spc = "search" /\ cycle < MaxCycles
    /\ LET r == Search(redis, now, window)
       IN  /\ ~r.err
           /\ found' = [n |-> cycle + 1, T1 |-> now, T2 |-> now + window] @@ r
           /\ pending' = r.schedules
    /\ cycle' = cycle + 1
    /\ spc' = "send"
    /\ UNCHANGED <<storageFactories, reply, now, window, redis, ops, returned, started, wake, runs, busy, log>>

\* search: Storage.Search returns an error and search panics.
CronSearchPanic ==
    /\ spc = "search" /\ cycle < MaxCycles
    /\ LET r == Search(redis, now, window)
       IN  /\ r.err
           /\ found' = [n |-> cycle + 1, T1 |-> now, T2 |-> now + window] @@ r
    /\ cycle' = cycle + 1
    /\ spc' = "panic"
    /\ UNCHANGED <<storageFactories, reply, now, window, redis, ops, returned, started, pending, wake, runs,
                   busy, log>>

\* search whose send waits for the trigger loop to be free.
CronSendIdle(s) ==
    /\ spc = "send" /\ s \in pending /\ busy = Nil
    /\ pending' = pending \ {s}
    /\ runs' = runs \cup {[cycle |-> cycle, T1 |-> found.T1, T2 |-> found.T2,
                            schedule |-> s, pc |-> "Do", ids |-> <<>>]}
    /\ UNCHANGED <<storageFactories, reply, now, window, redis, ops, returned, started, found, spc, wake, cycle,
                   busy, log>>

\* search: schedules <- *schedule, received by main's goroutine: go run(...).
CronSend(s) ==
    /\ spc = "send" /\ s \in pending
    /\ pending' = pending \ {s}
    /\ runs' = runs \cup {[cycle |-> cycle, T1 |-> found.T1, T2 |-> found.T2,
                            schedule |-> s, pc |-> "Do", ids |-> <<>>]}
    /\ UNCHANGED <<storageFactories, reply, now, window, redis, ops, returned, started, found, spc, wake, cycle,
                   busy, log>>

\* search: time.Sleep(interval) begins.
CronSleep ==
    /\ spc = "send" /\ pending = {}
    /\ wake' = now + window
    /\ spc' = "sleep"
    /\ UNCHANGED <<storageFactories, reply, now, window, redis, ops, returned, started, found, pending, cycle,
                   runs, busy, log>>

\* search: time.Sleep returns and search calls itself.
CronWake ==
    /\ spc = "sleep" /\ now >= wake
    /\ spc' = "search"
    /\ UNCHANGED <<storageFactories, reply, now, window, redis, ops, returned, started, found, pending, wake,
                   cycle, runs, busy, log>>

\* run deciding with the instant its Search began.
RunDoAtSearch(r) ==
    /\ Alive /\ r.pc = "Do"
    /\ LET watchesIDs == Do(r.schedule, r.T1)
       IN  /\ runs' = IF Len(watchesIDs) > 0
                      THEN (runs \ {r}) \cup {[r EXCEPT !.pc = "send", !.ids = watchesIDs]}
                      ELSE runs \ {r}
           /\ ops' = IF Len(watchesIDs) > 0
                     THEN ops \cup {[kind |-> "last", n |-> 0, cycle |-> r.cycle,
                                     T1 |-> r.T1, T2 |-> r.T2,
                                     id |-> r.schedule.ID, schedule |-> r.schedule,
                                     updateTimestamp |-> FALSE, pc |-> "HMSET"]}
                     ELSE ops
           /\ log' = [log EXCEPT
                        !.filtered = @ \cup {[cycle |-> r.cycle, T1 |-> r.T1, T2 |-> r.T2,
                                              schedule |-> r.schedule,
                                              ids |-> watchesIDs]}]
    /\ UNCHANGED <<storageFactories, reply, now, window, redis, returned, started, found, spc, pending, wake,
                   cycle, busy>>

\* run: schedule.Do() and, when it gave Watch IDs, the goroutine that will
\* call Update with Last = now and updateTimestamp = false.
RunDo(r) ==
    /\ Alive /\ r.pc = "Do"
    /\ LET watchesIDs == Do(r.schedule, now)
       IN  /\ runs' = IF Len(watchesIDs) > 0
                      THEN (runs \ {r}) \cup {[r EXCEPT !.pc = "send", !.ids = watchesIDs]}
                      ELSE runs \ {r}
           /\ ops' = IF Len(watchesIDs) > 0
                     THEN ops \cup {[kind |-> "last", n |-> 0, cycle |-> r.cycle,
                                     T1 |-> r.T1, T2 |-> r.T2,
                                     id |-> r.schedule.ID, schedule |-> r.schedule,
                                     updateTimestamp |-> FALSE, pc |-> "HMSET"]}
                     ELSE ops
           /\ log' = [log EXCEPT
                        !.filtered = @ \cup {[cycle |-> r.cycle, T1 |-> r.T1, T2 |-> r.T2,
                                              schedule |-> r.schedule,
                                              ids |-> watchesIDs]}]
    /\ UNCHANGED <<storageFactories, reply, now, window, redis, returned, started, found, spc, pending, wake,
                   cycle, busy>>

\* run sending the first of the Watch IDs only.
RunSendFirst(r) ==
    /\ Alive /\ r.pc = "send" /\ busy = Nil
    /\ busy' = Head(r.ids)
    /\ runs' = runs \ {r}
    /\ log' = [log EXCEPT !.triggered = @ \cup
                  {[cycle |-> r.cycle, id |-> r.schedule.ID,
                    k |-> Len(r.schedule.WatchesIDs) - Len(r.ids) + 1,
                    watch |-> Head(r.ids)]}]
    /\ UNCHANGED <<storageFactories, reply, now, window, redis, ops, returned, started, found, spc, pending,
                   wake, cycle>>

\* run: triggers <- ID, received by the trigger loop of main, which calls
\* sdk.TriggerByID.
RunSend(r) ==
    /\ Alive /\ r.pc = "send" /\ busy = Nil
    /\ busy' = Head(r.ids)
    /\ runs' = IF Len(r.ids) > 1
               THEN (runs \ {r}) \cup {[r EXCEPT !.ids = Tail(r.ids)]}
               ELSE runs \ {r}
    /\ log' = [log EXCEPT !.triggered = @ \cup
                  {[cycle |-> r.cycle, id |-> r.schedule.ID,
                    k |-> Len(r.schedule.WatchesIDs) - Len(r.ids) + 1,
                    watch |-> Head(r.ids)]}]
    /\ UNCHANGED <<storageFactories, reply, now, window, redis, ops, returned, started, found, spc, pending,
                   wake, cycle>>

\* main: sdk.TriggerByID returns, with an error or without; the loop goes on.
TriggerDone ==
    /\ Alive /\ busy # Nil
    /\ busy' = Nil
    /\ UNCHANGED <<storageFactories, reply, now, window, redis, ops, returned, started, found, spc, pending,
                   wake, cycle, runs, log>>

\* A storage client reads a Schedule (Get) and stores it changed (Update
\* with updateTimestamp = true): disabled, or with another stop.  The
\* commands of this Update run with no other command between them.
Modified(s) == {[s EXCEPT !.Enabled = FALSE], [s EXCEPT !.Stop = 1]}

ClientUpdate ==
    /\ started.update < MaxUpdates
    /\ \E id \in redis.ids :
          /\ ~Get(redis, id).err
          /\ \E s \in Modified(Get(redis, id).schedule) :
                redis' = SetAll(redis, id,
                                Stamped([kind |-> "update", schedule |-> s,
                                         updateTimestamp |-> TRUE], now))
    /\ started' = [started EXCEPT !.update = @ + 1]
    /\ UNCHANGED <<storageFactories, reply, now, window, ops, returned, found, cronVars>>

(***************************************************************************)
(* watches/sdk: TriggerByID.  The HTTP exchange is an input: the request   *)
(* fails in the network, or a response arrives with a status and a body    *)
(* that can or cannot be read.                                             *)
(***************************************************************************)
SdkConfig == [BaseURL |-> <<"w">>, Version |-> <<"1">>]

Outcomes ==
    {[net |-> "failed"]}
    \cup {[net |-> "ok", status |-> st, body |-> bd] :
            st \in {200, 201, 500}, bd \in {"read", "unreadable"}}

TriggerURL(id, config) ==
    config.BaseURL \o <<"/", "v">> \o config.Version \o <<"/">> \o Itoa(id)
        \o <<"/", "t", "r", "i", "g", "g", "e", "r">>

\* TriggerByID that takes every 2xx status for a success.
TriggerByID2xx(id, config, outcome) ==
    [requests |-> <<[method |-> "POST", url |-> TriggerURL(id, config)]>>,
     err      |-> IF outcome.net = "failed" THEN "network"
                  ELSE IF outcome.status \in {200, 201} THEN "nil"
                  ELSE "status"]

\* TriggerByID(id, config): the requests made and the error returned.
TriggerByID(id, config, outcome) ==
    [requests |-> <<[method |-> "POST", url |-> TriggerURL(id, config)]>>,
     err      |-> IF outcome.net = "failed" THEN "network"
                  ELSE IF outcome.status # 200
                  THEN (IF outcome.body = "unreadable"
                        THEN "status, body unreadable" ELSE "status")
                  ELSE "nil"]

\* The trigger loop that calls TriggerByID again after an error.
TriggerReturnRetry(outcome) ==
    /\ Alive /\ busy # Nil
    /\ LET r == TriggerByID(busy, SdkConfig, outcome)
       IN  /\ log' = [log EXCEPT
                        !.call = [n |-> @.n + 1, watch |-> busy, outcome |-> outcome,
                                  requests |-> r.requests, err |-> r.err],
                        !.errors = IF r.err # "nil" THEN @ \cup {busy} ELSE @]
           /\ busy' = IF r.err # "nil" THEN busy ELSE Nil
    /\ UNCHANGED <<storageFactories, reply, now, window, redis, ops, returned, started, found, spc, pending,
                   wake, cycle, runs>>

\* main: sdk.TriggerByID returns; an error is printed; the loop goes on.
TriggerReturn(outcome) ==
    /\ Alive /\ busy # Nil
    /\ LET r == TriggerByID(busy, SdkConfig, outcome)
       IN  log' = [log EXCEPT
                     !.call = [n |-> @.n + 1, watch |-> busy, outcome |-> outcome,
                               requests |-> r.requests, err |-> r.err],
                     !.errors = IF r.err # "nil" THEN @ \cup {busy} ELSE @]
    /\ busy' = Nil
    /\ UNCHANGED <<storageFactories, reply, now, window, redis, ops, returned, started, found, spc, pending,
                   wake, cycle, runs>>

(***************************************************************************)
(* SpecCron: ms_watch_cron polling a database that a Create call filled,   *)
(* while one storage client may update a Schedule.                         *)
(***************************************************************************)
CronInputs ==
    {NewSchedule(start, stop, interval, <<7>>, TRUE, Nil) :
        start \in {Nil, 2}, stop \in {Nil, 3}, interval \in {1, 3}}
    \cup {NewSchedule(Nil, Nil, 1, <<7, 8>>, TRUE, Nil),
          NewSchedule(Nil, Nil, 1, <<>>, TRUE, Nil)}


InitCron ==
    /\ now = 1
    /\ window \in 1..MaxWindow
    /\ \E s \in CronInputs : redis = Created(EmptyRedis, s, 1)
    /\ ops = {}
    /\ returned = <<>>
    /\ started = [create |-> 0, update |-> 0]
    /\ found = NoFound
    /\ spc = "search" /\ pending = {} /\ wake = 0 /\ cycle = 0
    /\ runs = {} /\ busy = Nil /\ log = NoLog /\ reply = NoReply
    /\ storageFactories = {"redis"}

NextCron ==
    \/ CronSearch
    \/ CronSearchPanic
    \/ \E s \in pending : CronSend(s)
    \/ CronSleep
    \/ CronWake
    \/ \E r \in runs : RunDo(r)
    \/ \E r \in runs : RunSend(r)
    \/ TriggerDone
    \/ SetStep
    \/ ClientUpdate
    \/ TickTo(MaxCronTime)

SpecCron == InitCron /\ [][NextCron]_vars

(***************************************************************************)
(* SpecE2E: ms_watch_cron with a poll interval of 5 on a database holding  *)
(* one enabled Schedule with watches_ids = [7], interval = 1, no start, no *)
(* stop and no last.  The Go scheduler runs every goroutine that can take  *)
(* a step, and Redis answers every command.                                *)
(***************************************************************************)
E2EWindow == 5

E2ESchedule == NewSchedule(Nil, Nil, 1, <<7>>, TRUE, Nil)

InitE2E ==
    /\ now = 1
    /\ window = E2EWindow
    /\ redis = Created(EmptyRedis, E2ESchedule, 1)
    /\ ops = {}
    /\ returned = <<>>
    /\ started = [create |-> 0, update |-> 0]
    /\ found = NoFound
    /\ spc = "search" /\ pending = {} /\ wake = 0 /\ cycle = 0
    /\ runs = {} /\ busy = Nil /\ log = NoLog /\ reply = NoReply
    /\ storageFactories = {"redis"}

NextE2E ==
    \/ CronSearch
    \/ \E s \in pending : CronSend(s)
    \/ CronSleep
    \/ CronWake
    \/ \E r \in runs : RunDo(r)
    \/ \E r \in runs : RunSend(r)
    \/ TriggerDone
    \/ SetStep
    \/ TickTo(MaxE2ETime)

SpecE2E ==
    /\ InitE2E /\ [][NextE2E]_vars
    /\ WF_vars(CronSearch)
    /\ WF_vars(\E s \in pending : CronSend(s))
    /\ WF_vars(\E r \in runs : RunDo(r))
    /\ WF_vars(\E r \in runs : RunSend(r))
    /\ WF_vars(SetStep)

(***************************************************************************)
(* SpecPoll: ms_watch_cron with a poll interval of 1 on a database holding *)
(* one Schedule of two Watches.  The Go scheduler runs every goroutine     *)
(* that can take a step and Redis answers every command; nothing makes a   *)
(* call of the Watch API return.                                           *)
(***************************************************************************)
MaxPollTime == 2

PollSchedule == NewSchedule(Nil, Nil, 1, <<7, 8>>, TRUE, Nil)

InitPoll ==
    /\ now = 1
    /\ window = 1
    /\ redis = Created(EmptyRedis, PollSchedule, 1)
    /\ ops = {}
    /\ returned = <<>>
    /\ started = [create |-> 0, update |-> 0]
    /\ found = NoFound
    /\ spc = "search" /\ pending = {} /\ wake = 0 /\ cycle = 0
    /\ runs = {} /\ busy = Nil /\ log = NoLog /\ reply = NoReply
    /\ storageFactories = {"redis"}

NextPoll ==
    \/ CronSearch
    \/ \E s \in pending : CronSend(s)
    \/ CronSleep
    \/ CronWake
    \/ \E r \in runs : RunDo(r)
    \/ \E r \in runs : RunSend(r)
    \/ TriggerDone
    \/ SetStep
    \/ TickTo(MaxPollTime)

SpecPoll ==
    /\ InitPoll /\ [][NextPoll]_vars
    /\ WF_vars(CronSearch)
    /\ WF_vars(\E s \in pending : CronSend(s))
    /\ WF_vars(CronSleep)
    /\ WF_vars(CronWake)
    /\ WF_vars(\E r \in runs : RunDo(r))
    /\ WF_vars(\E r \in runs : RunSend(r))
    /\ WF_vars(SetStep)

(***************************************************************************)
(* SpecTrigger: the same program and database, with the outcome of every   *)
(* call of the Watch API that returns.                                     *)
(***************************************************************************)
NextTrigger ==
    \/ CronSearch
    \/ \E s \in pending : CronSend(s)
    \/ CronSleep
    \/ CronWake
    \/ \E r \in runs : RunDo(r)
    \/ \E r \in runs : RunSend(r)
    \/ \E outcome \in Outcomes : TriggerReturn(outcome)
    \/ SetStep
    \/ TickTo(MaxPollTime)

SpecTrigger == InitPoll /\ [][NextTrigger]_vars

(***************************************************************************)
(* SpecNoClient: a process calls the storage operations on a Redis storage *)
(* whose client is nil, beside a database that one Create call filled.     *)
(***************************************************************************)
\* The log after a call returned an error to its caller.
ErrorReturned(name) ==
    [log EXCEPT !.results = @ \cup {[op |-> name, err |-> TRUE]}]

\* Create: generateID finds the client nil and returns an error.
NoClientCreate ==
    /\ Alive
    /\ log' = ErrorReturned("Create")
    /\ UNCHANGED <<storageFactories, reply, now, window, redis, ops, returned, started, found, spc, pending,
                   wake, cycle, runs, busy>>

\* Get finds the client nil and returns an error.
NoClientGet ==
    /\ Alive
    /\ log' = ErrorReturned("Get")
    /\ UNCHANGED <<storageFactories, reply, now, window, redis, ops, returned, started, found, spc, pending,
                   wake, cycle, runs, busy>>

\* Update: set finds the client nil and returns an error.
NoClientUpdate ==
    /\ Alive
    /\ log' = ErrorReturned("Update")
    /\ UNCHANGED <<storageFactories, reply, now, window, redis, ops, returned, started, found, spc, pending,
                   wake, cycle, runs, busy>>

\* Search: loadSearchScript cannot read the script and returns an error.
NoClientSearchNoScript ==
    /\ Alive
    /\ log' = ErrorReturned("Search")
    /\ UNCHANGED <<storageFactories, reply, now, window, redis, ops, returned, started, found, spc, pending,
                   wake, cycle, runs, busy>>

\* Search: the script is read and storage.client.Cmd is called on the nil
\* client, with no test before it: a nil pointer dereference, which ends
\* the process.
NoClientSearch ==
    /\ Alive
    /\ spc' = "panic"
    /\ UNCHANGED <<storageFactories, reply, now, window, redis, ops, returned, started, found, pending,
                   wake, cycle, runs, busy, log>>

InitNoClient ==
    /\ now = 1
    /\ window = 1
    /\ redis \in {EmptyRedis} \cup {Created(EmptyRedis, s, 1) : s \in CreateInputs}
    /\ ops = {}
    /\ returned = <<>>
    /\ started = [create |-> 0, update |-> 0]
    /\ found = NoFound
    /\ CronIdle

NextNoClient ==
    \/ NoClientCreate
    \/ NoClientGet
    \/ NoClientUpdate
    \/ NoClientSearchNoScript
    \/ NoClientSearch
    \/ TickTo(MaxTime)

SpecNoClient == InitNoClient /\ [][NextNoClient]_vars

(***************************************************************************)
(* SpecGet: a storage client calls Get on a database that holds up to two  *)
(* Schedules written by Create, one of them possibly with a field that     *)
(* another Redis client has set.                                           *)
(***************************************************************************)
\* HSET key field value, sent by any client of the Redis server.
HSET(rd, id, field, value) ==
    [rd EXCEPT !.hashes = Put(rd.hashes, id, Put(rd.hashes[id], field, value))]

GetSchedules ==
    {NewSchedule(start, Nil, 1, wids, enabled, Nil) :
        start \in {Nil, 2}, wids \in {<<>>, <<7>>, <<7, 10>>}, enabled \in BOOLEAN}

GetStores ==
    {EmptyRedis}
        \cup {Created(EmptyRedis, s, 1) : s \in GetSchedules}
        \cup {Created(Created(EmptyRedis, s, 1), NewSchedule(Nil, Nil, 1, <<7>>, TRUE, Nil), 1) :
                s \in GetSchedules}

HashFieldNames ==
    {"watches_ids", "interval", "enabled", "start", "stop", "last",
     "created_at", "updated_at"}

HashFieldValues == {<<"x">>, <<>>, <<"2">>, <<"7", ",", "x">>, <<"1", ".", "5">>}

\* The ids Get is called with: 3 is never stored.
GetIDs == {1, 2, 3}

\* Redis.Get(scheduleID) called by a storage client: nil and the error when
\* fromHashFields fails.
GetCall(scheduleID) ==
    /\ reply' =
           LET hashFields == HGETALL(redis, scheduleID)
               r          == Get(redis, scheduleID)
           IN  [op         |-> "Get",
                id         |-> scheduleID,
                stored     |-> scheduleID \in DOMAIN redis.hashes,
                hashFields |-> hashFields,
                err        |-> fromHashFieldsError(hashFields),
                schedule   |-> IF r.err THEN NilValue ELSE r.schedule]
    /\ UNCHANGED <<now, window, redis, ops, returned, started, found, spc, pending,
                   wake, cycle, runs, busy, log, storageFactories>>

InitGet ==
    /\ now = 1
    /\ window = 1
    /\ redis \in GetStores
                  \cup {HSET(rd, 1, field, value) :
                          rd \in {g \in GetStores : 1 \in DOMAIN g.hashes},
                          field \in HashFieldNames, value \in HashFieldValues}
    /\ ops = {}
    /\ returned = <<>>
    /\ started = [create |-> 0, update |-> 0]
    /\ found = NoFound
    /\ CronIdle

NextGet == \E scheduleID \in GetIDs : GetCall(scheduleID)

SpecGet == InitGet /\ [][NextGet]_vars

(***************************************************************************)
(* SpecHealthCheck: the Health Check Watch (watches/health_check).  A      *)
(* caller runs data(), evaluate() or Do() on a Watch; the HTTP GET either  *)
(* fails or returns a response with a status line.                         *)
(***************************************************************************)
MaxConditions == 2   \* a Watch holds at most MaxConditions Conditions

\* What client.Get returns: an error, or a response; res.Status is the status
\* code and the reason phrase the server sent.
HTTPOutcomes ==
    {[err |-> TRUE, Status |-> <<>>]}
        \cup {[err |-> FALSE, Status |-> s] :
                s \in {<<"2", "0", "0", " ", "O", "K">>, <<"2", "0", "1">>,
                       <<"4", "0", "4", " ", "N", "o">>, <<"5", "0", "0">>}}

\* The values a Result is given in the package and in its tests.
ResultStatuses == {"", "success", "inaccessible", "status_mismatch", "timeout", "failure"}

\* ConditionSuccess{} and ConditionFailure{}, named by their JSON type.
ConditionTypes == {"success", "failure"}

ConditionLists ==
    UNION {[1..n -> ConditionTypes] : n \in 0..MaxConditions}

HealthCheckWatches ==
    {[ActionsIds |-> ids, URL |-> <<"u">>, Statuses |-> statuses, Timeout |-> 1,
      Conditions |-> conditions, result |-> [Status |-> ""]] :
        ids \in {<<>>, <<4>>, <<4, 2>>},
        statuses \in {<<>>, <<200>>, <<200, 201>>, <<404>>},
        conditions \in ConditionLists}

\* data with every response taken for a successful one.
dataAnyStatus(watch, outcome) ==
    [watch EXCEPT !.result =
        [Status |-> IF outcome.err THEN "inaccessible" ELSE "success"]]

\* A call that ended in panic(err).
Panicked == [panic |-> TRUE]

\* Watch.data(): the Watch with its result set; Panicked when the first three
\* characters of res.Status are not a number.
data(watch, outcome) ==
    IF outcome.err
    THEN [watch EXCEPT !.result = [Status |-> "inaccessible"]]
    ELSE LET resStatusInt == Atoi(SubSeq(outcome.Status, 1, 3))
             statusMatch  == \E i \in 1..Len(watch.Statuses) :
                                 watch.Statuses[i] = resStatusInt.val
         IN  IF ~resStatusInt.ok THEN Panicked
             ELSE IF ~statusMatch
             THEN [watch EXCEPT !.result = [Status |-> "status_mismatch"]]
             ELSE [watch EXCEPT !.result = [Status |-> "success"]]

\* ConditionSuccess.Do and ConditionFailure.Do
ConditionDo(condition, result) ==
    IF condition = "success" THEN result.Status = "success"
    ELSE result.Status # "success"

\* evaluate looking at the first Condition only.
evaluateFirst(watch) ==
    watch.Conditions = <<>> \/ ConditionDo(watch.Conditions[1], watch.result)

\* Watch.evaluate(): the loop stops at the first Condition that fails.
RECURSIVE evaluateFrom(_, _)
evaluateFrom(watch, index) ==
    IF index > Len(watch.Conditions) THEN TRUE
    ELSE IF ~ConditionDo(watch.Conditions[index], watch.result) THEN FALSE
    ELSE evaluateFrom(watch, index + 1)

evaluate(watch) == evaluateFrom(watch, 1)

\* Do returning the action IDs whatever evaluate says.
WatchDoAlways(watch, outcome) ==
    [ids |-> watch.ActionsIds, watch |-> watch, local |-> data(watch, outcome)]

\* Watch.Do(): the receiver is a copy, `local`, of the caller's Watch; ids is
\* what Do returns and watch is the caller's Watch after the call.
WatchDo(watch, outcome) ==
    LET local == data(watch, outcome)
        ok    == evaluate(local)
    IN  [ids   |-> IF ~ok THEN <<>> ELSE local.ActionsIds,
         watch |-> watch,
         local |-> local]

DataCall(watch, outcome) ==
    /\ reply' = [op |-> "data", before |-> watch, outcome |-> outcome,
                 watch |-> data(watch, outcome)]
    /\ UNCHANGED <<now, window, redis, ops, returned, started, found, spc, pending,
                   wake, cycle, runs, busy, log, storageFactories>>

EvaluateCall(watch, status) ==
    /\ reply' = [op |-> "evaluate", watch |-> [watch EXCEPT !.result = [Status |-> status]],
                 ok |-> evaluate([watch EXCEPT !.result = [Status |-> status]])]
    /\ UNCHANGED <<now, window, redis, ops, returned, started, found, spc, pending,
                   wake, cycle, runs, busy, log, storageFactories>>

DoCall(watch, outcome) ==
    /\ reply' = [op |-> "Do", before |-> watch, outcome |-> outcome]
                    @@ WatchDo(watch, outcome)
    /\ UNCHANGED <<now, window, redis, ops, returned, started, found, spc, pending,
                   wake, cycle, runs, busy, log, storageFactories>>

InitHealthCheck ==
    /\ now = 1
    /\ window = 1
    /\ redis = EmptyRedis
    /\ ops = {}
    /\ returned = <<>>
    /\ started = [create |-> 0, update |-> 0]
    /\ found = NoFound
    /\ CronIdle

NextHealthCheck ==
    \/ \E watch \in HealthCheckWatches, outcome \in HTTPOutcomes : DataCall(watch, outcome)
    \/ \E watch \in HealthCheckWatches, status \in ResultStatuses : EvaluateCall(watch, status)
    \/ \E watch \in HealthCheckWatches, outcome \in HTTPOutcomes : DoCall(watch, outcome)

SpecHealthCheck == InitHealthCheck /\ [][NextHealthCheck]_vars

(***************************************************************************)
(* SpecWrapper: the Watch and Action wrappers (watches/wrapper and         *)
(* actions/wrapper).  A JSON document is modelled by the value it denotes: *)
(* null, a string, a number, an array or an object (a function from its    *)
(* keys to JSON values); a nil slice and an empty slice are both <<>>, and *)
(* nilSlices says which of the two the empty slices of an entity are.      *)
(***************************************************************************)
JSONNull == [json |-> "null"]

JSONString(s) == [json |-> "string", s |-> s]

JSONNumber(n) == [json |-> "number", n |-> n]

JSONArray(a) == [json |-> "array", a |-> a]

JSONObject(o) == [json |-> "object", o |-> o]

\* jsonMap[key] != nil for a map[string]*json.RawMessage: the key is there
\* and its value is not null.
Has(jsonMap, key) == key \in DOMAIN jsonMap /\ jsonMap[key].json # "null"

\* jsonMap[key]: a nil pointer when the key is missing or null.
RawMessage(jsonMap, key) == IF Has(jsonMap, key) THEN jsonMap[key] ELSE NilValue

\* json.Marshal of a slice: null when the slice is nil.
MarshalSlice(elems, nilSlices) ==
    IF elems = <<>> /\ nilSlices THEN JSONNull ELSE JSONArray(elems)

\* The error json.Unmarshal returns when the document does not fit the target.
UnmarshalTypeError == Errorf("json: cannot unmarshal")

\* The exported fields of the chat Message the model keeps, by JSON key.
MessageKeys == {"text", "alias"}

MessageField(key) == IF key = "text" THEN "Text" ELSE "Alias"

\* json.Marshal of a chat Action: the pointers of Message are omitempty.
MarshalChat(action) ==
    JSONObject(
        [name    |-> JSONString(action.Name),
         url     |-> JSONString(action.URL),
         message |-> JSONObject(
             [k \in {key \in MessageKeys : action.Message[MessageField(key)] # NilValue} |->
                 JSONString(action.Message[MessageField(k)].ptr)])])

\* json.Unmarshal of a document into a zero chat Action.
UnmarshalChat(raw) ==
    IF raw.json # "object" THEN [err |-> UnmarshalTypeError, entity |-> NilValue]
    ELSE LET o      == raw.o
             badStr == \E k \in {"name", "url"} : Has(o, k) /\ o[k].json # "string"
             badMsg == Has(o, "message") /\
                           \/ o["message"].json # "object"
                           \/ \E k \in MessageKeys :
                                  /\ Has(o["message"].o, k)
                                  /\ o["message"].o[k].json # "string"
             ptr(k) == IF Has(o, "message") /\ Has(o["message"].o, k)
                       THEN [ptr |-> o["message"].o[k].s] ELSE NilValue
         IN  IF badStr \/ badMsg THEN [err |-> UnmarshalTypeError, entity |-> NilValue]
             ELSE [err    |-> NilValue,
                   entity |-> [pkg        |-> "actions/chat",
                               Name       |-> IF Has(o, "name") THEN o["name"].s ELSE "",
                               URL        |-> IF Has(o, "url") THEN o["url"].s ELSE "",
                               Message    |-> [Text |-> ptr("text"), Alias |-> ptr("alias")],
                               httpClient |-> NilValue]]

\* The string fields of the mailgun Action, by JSON key.
MailgunKeys ==
    {"name", "mailgun_domain", "mailgun_api_key", "mailgun_public_api_key",
     "message_from", "message_to", "message_subject", "message_body"}

MailgunField(key) ==
    CASE key = "name" -> "Name"
      [] key = "mailgun_domain" -> "MailgunDomain"
      [] key = "mailgun_api_key" -> "MailgunAPIKey"
      [] key = "mailgun_public_api_key" -> "MailgunPublicAPIKey"
      [] key = "message_from" -> "MessageFrom"
      [] key = "message_to" -> "MessageTo"
      [] key = "message_subject" -> "MessageSubject"
      [] key = "message_body" -> "MessageBody"

MailgunFields == {MailgunField(key) : key \in MailgunKeys}

MarshalMailgun(action) ==
    JSONObject([k \in MailgunKeys |-> JSONString(action[MailgunField(k)])])

UnmarshalMailgun(raw) ==
    IF raw.json # "object" THEN [err |-> UnmarshalTypeError, entity |-> NilValue]
    ELSE IF \E k \in MailgunKeys : Has(raw.o, k) /\ raw.o[k].json # "string"
    THEN [err |-> UnmarshalTypeError, entity |-> NilValue]
    ELSE [err    |-> NilValue,
          entity |-> [f \in MailgunFields \cup {"pkg", "mailgunClient"} |->
                         IF f = "pkg" THEN "actions/mailgun"
                         ELSE IF f = "mailgunClient" THEN NilValue
                         ELSE LET k == CHOOSE key \in MailgunKeys : MailgunField(key) = f
                              IN  IF Has(raw.o, k) THEN raw.o[k].s ELSE ""]]

\* json.Marshal of an Action held in an interface: that of its struct.
MarshalAction(action) ==
    IF action.pkg = "actions/chat" THEN MarshalChat(action) ELSE MarshalMailgun(action)

\* json.Marshal of a health check Watch; a Condition is {"type": ...}.
MarshalWatch(watch, nilSlices) ==
    JSONObject(
        [name        |-> JSONString(watch.Name),
         actions_ids |-> MarshalSlice([i \in DOMAIN watch.ActionsIds |->
                                          JSONNumber(watch.ActionsIds[i])], nilSlices),
         actions     |-> MarshalSlice([i \in DOMAIN watch.Actions |->
                                          MarshalAction(watch.Actions[i])], nilSlices),
         url         |-> JSONString(watch.URL),
         statuses    |-> MarshalSlice([i \in DOMAIN watch.Statuses |->
                                          JSONNumber(watch.Statuses[i])], nilSlices),
         timeout     |-> JSONNumber(watch.Timeout),
         conditions  |-> MarshalSlice([i \in DOMAIN watch.Conditions |->
                                          JSONObject([type |-> JSONString(watch.Conditions[i])])],
                                      nilSlices)])

\* An array of JSON numbers, as json.Unmarshal into []int requires.
IsNumbers(raw) ==
    raw.json = "array" /\ \A i \in DOMAIN raw.a : raw.a[i].json = "number"

\* Watch.UnmarshalJSON: name, actions_ids, url, statuses, timeout, then the
\* Conditions by their type; the "actions" key is not read.
WatchUnmarshalJSON(raw) ==
    IF raw.json # "object" THEN [err |-> UnmarshalTypeError, entity |-> NilValue]
    ELSE
    LET o == raw.o
        bad == \/ Has(o, "name") /\ o["name"].json # "string"
               \/ Has(o, "actions_ids") /\ ~IsNumbers(o["actions_ids"])
               \/ Has(o, "url") /\ o["url"].json # "string"
               \/ Has(o, "statuses") /\ ~IsNumbers(o["statuses"])
               \/ Has(o, "timeout") /\ o["timeout"].json # "number"
        rawConditions == IF Has(o, "conditions") THEN o["conditions"] ELSE JSONArray(<<>>)
        badConditions ==
            \/ rawConditions.json # "array"
            \/ \E i \in DOMAIN rawConditions.a :
                   \/ rawConditions.a[i].json # "object"
                   \/ /\ Has(rawConditions.a[i].o, "type")
                      /\ rawConditions.a[i].o["type"].json # "string"
        noType == \E i \in DOMAIN rawConditions.a :
                      ~Has(rawConditions.a[i].o, "type")
        unknown == \E i \in DOMAIN rawConditions.a :
                       rawConditions.a[i].o["type"].s \notin {"success", "failure"}
    IN  IF bad \/ badConditions THEN [err |-> UnmarshalTypeError, entity |-> NilValue]
        ELSE IF noType THEN Panicked
        ELSE IF unknown THEN [err |-> Errorf("unknown Condition type"), entity |-> NilValue]
        ELSE [err    |-> NilValue,
              entity |-> [pkg        |-> "watches/health_check",
                          Name       |-> IF Has(o, "name") THEN o["name"].s ELSE "",
                          ActionsIds |-> IF Has(o, "actions_ids")
                                         THEN [i \in DOMAIN o["actions_ids"].a |->
                                                  o["actions_ids"].a[i].n]
                                         ELSE <<>>,
                          Actions    |-> <<>>,
                          URL        |-> IF Has(o, "url") THEN o["url"].s ELSE "",
                          Statuses   |-> IF Has(o, "statuses")
                                         THEN [i \in DOMAIN o["statuses"].a |->
                                                  o["statuses"].a[i].n]
                                         ELSE <<>>,
                          Timeout    |-> IF Has(o, "timeout") THEN o["timeout"].n ELSE 0,
                          Conditions |-> [i \in DOMAIN rawConditions.a |->
                                             rawConditions.a[i].o["type"].s],
                          result     |-> [Status |-> ""]]]

\* health.NewHealthCheckWatch: the Watch decoded from the payload.
NewHealthCheckWatch(jsonWatch) ==
    IF jsonWatch = NilValue THEN Panicked ELSE WatchUnmarshalJSON(jsonWatch)

\* chat.NewChatMessageAction: the Action decoded from the payload, with an
\* HTTP client of 30 seconds timeout injected.
NewChatMessageAction(jsonAction) ==
    IF jsonAction = NilValue THEN Panicked
    ELSE LET r == UnmarshalChat(jsonAction)
         IN  IF r.err # NilValue THEN r
             ELSE [r EXCEPT !.entity.httpClient = [Timeout |-> 30]]

\* mailgun.NewMailgunMessageAction: the Action decoded from the payload, with
\* a Mailgun client for its domain and keys injected.
NewMailgunMessageAction(jsonAction) ==
    IF jsonAction = NilValue THEN Panicked
    ELSE LET r == UnmarshalMailgun(jsonAction)
         IN  IF r.err # NilValue THEN r
             ELSE [r EXCEPT !.entity.mailgunClient =
                       [Domain |-> r.entity.MailgunDomain, APIKey |-> r.entity.MailgunAPIKey]]

\* The factories Create registers on its first call, by type.
watchFactories == {"health_check"}

actionFactories == {"chat_message", "mailgun_message"}

\* Wrapper of watches/wrapper: the type from the package path of the struct.
WatchWrapper(watch) ==
    IF watch.pkg = "watches/health_check"
    THEN [err |-> NilValue, wrapper |-> [Type |-> "health_check", Watch |-> watch]]
    ELSE [err |-> Errorf("unknown Watch struct"), wrapper |-> NilValue]

\* Wrapper of actions/wrapper.
ActionWrapper(action) ==
    IF action.pkg = "actions/chat"
    THEN [err |-> NilValue, wrapper |-> [Type |-> "chat_message", Action |-> action]]
    ELSE IF action.pkg = "actions/mailgun"
    THEN [err |-> NilValue, wrapper |-> [Type |-> "mailgun_message", Action |-> action]]
    ELSE [err |-> Errorf("unknown Action struct"), wrapper |-> NilValue]

\* json.Marshal of a WatchWrapper and of an ActionWrapper.
MarshalWatchWrapper(wrapper, nilSlices) ==
    JSONObject([type  |-> JSONString(wrapper.Type),
                watch |-> MarshalWatch(wrapper.Watch, nilSlices)])

MarshalActionWrapper(wrapper) ==
    JSONObject([type   |-> JSONString(wrapper.Type),
                action |-> MarshalAction(wrapper.Action)])

\* Create of watches/wrapper with its test for a missing type left out.
CreateWatchUnchecked(jsonWatch) ==
    IF jsonWatch.json # "object" THEN [err |-> UnmarshalTypeError, entity |-> NilValue]
    ELSE NewHealthCheckWatch(RawMessage(jsonWatch.o, "watch"))

\* Create of watches/wrapper.
CreateWatch(jsonWatch) ==
    IF jsonWatch.json # "object" THEN [err |-> UnmarshalTypeError, entity |-> NilValue]
    ELSE LET jsonMap == jsonWatch.o
         IN  IF ~Has(jsonMap, "type")
             THEN [err    |-> Errorf("JSON object that does not contain the Watch's type"),
                   entity |-> NilValue]
             ELSE IF jsonMap["type"].json # "string"
             THEN [err |-> UnmarshalTypeError, entity |-> NilValue]
             ELSE IF jsonMap["type"].s \notin watchFactories
             THEN [err |-> Errorf("unknown Watch factory for type"), entity |-> NilValue]
             ELSE NewHealthCheckWatch(RawMessage(jsonMap, "watch"))

\* Create of actions/wrapper.
CreateAction(jsonAction) ==
    IF jsonAction.json # "object" THEN [err |-> UnmarshalTypeError, entity |-> NilValue]
    ELSE LET jsonMap == jsonAction.o
         IN  IF ~Has(jsonMap, "type")
             THEN [err    |-> Errorf("JSON object that does not contain the Action's type"),
                   entity |-> NilValue]
             ELSE IF jsonMap["type"].json # "string"
             THEN [err |-> UnmarshalTypeError, entity |-> NilValue]
             ELSE IF jsonMap["type"].s \notin actionFactories
             THEN [err |-> Errorf("unknown Action factory for type"), entity |-> NilValue]
             ELSE IF jsonMap["type"].s = "chat_message"
             THEN NewChatMessageAction(RawMessage(jsonMap, "action"))
             ELSE NewMailgunMessageAction(RawMessage(jsonMap, "action"))

\* WatchWrapper.UnmarshalJSON: the error and the wrapper it leaves.
WatchWrapperUnmarshalJSON(bytes) ==
    IF bytes.json # "object"
    THEN [err |-> UnmarshalTypeError, wrapper |-> [Type |-> "", Watch |-> NilValue]]
    ELSE LET jsonMap == bytes.o
         IN  IF ~Has(jsonMap, "type") /\ Has(jsonMap, "watch")
             THEN [err     |-> Errorf("cannot decode WatchWrapper JSON object without the type"),
                   wrapper |-> [Type |-> "", Watch |-> NilValue]]
             ELSE IF ~Has(jsonMap, "type") THEN Panicked
             ELSE IF jsonMap["type"].json # "string"
             THEN [err |-> UnmarshalTypeError, wrapper |-> [Type |-> "", Watch |-> NilValue]]
             ELSE LET watchType == jsonMap["type"].s
                      typed     == [Type |-> watchType, Watch |-> NilValue]
                  IN  IF ~Has(jsonMap, "watch") THEN [err |-> NilValue, wrapper |-> typed]
                      ELSE IF watchType = "health_check"
                      THEN LET r == WatchUnmarshalJSON(jsonMap["watch"])
                           IN  IF r = Panicked THEN Panicked
                               ELSE IF r.err # NilValue THEN [err |-> r.err, wrapper |-> typed]
                               ELSE [err     |-> NilValue,
                                     wrapper |-> [Type |-> watchType, Watch |-> r.entity]]
                      ELSE [err |-> Errorf("unknown Watch type"), wrapper |-> typed]

\* ActionWrapper.UnmarshalJSON: the error and the wrapper it leaves.
ActionWrapperUnmarshalJSON(bytes) ==
    IF bytes.json # "object"
    THEN [err |-> UnmarshalTypeError, wrapper |-> [Type |-> "", Action |-> NilValue]]
    ELSE LET jsonMap == bytes.o
         IN  IF ~Has(jsonMap, "type") /\ Has(jsonMap, "action")
             THEN [err     |-> Errorf("cannot decode ActionWrapper JSON object without the type"),
                   wrapper |-> [Type |-> "", Action |-> NilValue]]
             ELSE IF ~Has(jsonMap, "type") THEN Panicked
             ELSE IF jsonMap["type"].json # "string"
             THEN [err |-> UnmarshalTypeError, wrapper |-> [Type |-> "", Action |-> NilValue]]
             ELSE LET actionType == jsonMap["type"].s
                      typed      == [Type |-> actionType, Action |-> NilValue]
                      r          == IF actionType = "chat_message"
                                    THEN UnmarshalChat(jsonMap["action"])
                                    ELSE UnmarshalMailgun(jsonMap["action"])
                  IN  IF ~Has(jsonMap, "action") THEN [err |-> NilValue, wrapper |-> typed]
                      ELSE IF actionType \in {"chat_message", "mailgun_message"}
                      THEN IF r.err # NilValue THEN [err |-> r.err, wrapper |-> typed]
                           ELSE [err     |-> NilValue,
                                 wrapper |-> [Type |-> actionType, Action |-> r.entity]]
                      ELSE [err |-> Errorf("unknown Action type"), wrapper |-> typed]

\* The Actions a caller wraps: chat and mailgun Actions, with or without a
\* client, and a value whose struct type belongs to neither package.
ChatActions ==
    {[pkg |-> "actions/chat", Name |-> name, URL |-> "u",
      Message |-> [Text |-> text, Alias |-> alias], httpClient |-> client] :
        name \in {"", "c"}, text \in {NilValue, [ptr |-> "hi"]},
        alias \in {NilValue, [ptr |-> ""]}, client \in {NilValue, [Timeout |-> 30]}}

MailgunActions ==
    {[pkg |-> "actions/mailgun", Name |-> name, MailgunDomain |-> domain,
      MailgunAPIKey |-> "k", MailgunPublicAPIKey |-> "p", MessageFrom |-> "f",
      MessageTo |-> to, MessageSubject |-> "s", MessageBody |-> "b",
      mailgunClient |-> NilValue] :
        name \in {"", "m"}, domain \in {"", "d"}, to \in {"", "t"}}

OtherStructs == {[pkg |-> ""]}

\* The Watches a caller wraps: health check Watches with and without Actions
\* held in their Actions field.
WrapperWatches ==
    {[pkg |-> "watches/health_check", Name |-> name, Actions |-> actions] @@ watch :
        name \in {"", "w"},
        actions \in {<<>>, <<CHOOSE a \in ChatActions :
                               a.Name = "c" /\ a.Message.Text # NilValue>>},
        watch \in HealthCheckWatches}

\* The documents Create and UnmarshalJSON are given: an object with or
\* without a type and with or without a payload under key, or a string.
TypeChoices ==
    {NilValue, JSONNull, JSONNumber(5)}
        \cup {JSONString(t) :
                t \in {"health_check", "chat_message", "mailgun_message", "bogus", ""}}

Document(type, payload, key) ==
    JSONObject([k \in (IF type = NilValue THEN {} ELSE {"type"})
                          \cup (IF payload = NilValue THEN {} ELSE {key}) |->
                   IF k = "type" THEN type ELSE payload])

WatchDocuments ==
    {JSONString("x")}
        \cup {Document(type, payload, "watch") :
                type \in TypeChoices,
                payload \in {NilValue, JSONNull, JSONString("x")}
                    \cup {MarshalWatch(w, FALSE) :
                            w \in {x \in WrapperWatches : x.Name = "w" /\ x.Statuses = <<200>>
                                                          /\ x.ActionsIds = <<4>>}}}

ActionDocuments ==
    {JSONString("x")}
        \cup {Document(type, payload, "action") :
                type \in TypeChoices,
                payload \in {NilValue, JSONNull, JSONString("x")}
                    \cup {MarshalAction(a) :
                            a \in {x \in ChatActions \cup MailgunActions : x.Name # ""}}}

\* Wrapper, json.Marshal, then Create, as the storage does on set and Get.
WatchRoundTrip(watch, nilSlices) ==
    /\ reply' =
           LET wrapped == WatchWrapper(watch)
               json    == IF wrapped.err # NilValue THEN NilValue
                          ELSE MarshalWatchWrapper(wrapped.wrapper, nilSlices)
           IN  [op |-> "RoundTrip", kind |-> "watch", x |-> watch, wrapped |-> wrapped,
                json |-> json,
                created |-> IF wrapped.err # NilValue THEN NilValue ELSE CreateWatch(json)]
    /\ UNCHANGED <<now, window, redis, ops, returned, started, found, spc, pending,
                   wake, cycle, runs, busy, log, storageFactories>>

ActionRoundTrip(action) ==
    /\ reply' =
           LET wrapped == ActionWrapper(action)
               json    == IF wrapped.err # NilValue THEN NilValue
                          ELSE MarshalActionWrapper(wrapped.wrapper)
           IN  [op |-> "RoundTrip", kind |-> "action", x |-> action, wrapped |-> wrapped,
                json |-> json,
                created |-> IF wrapped.err # NilValue THEN NilValue ELSE CreateAction(json)]
    /\ UNCHANGED <<now, window, redis, ops, returned, started, found, spc, pending,
                   wake, cycle, runs, busy, log, storageFactories>>

\* Create called on a document.
CreateWatchCall(document) ==
    /\ reply' = [op |-> "Create", kind |-> "watch", json |-> document,
                 result |-> CreateWatch(document)]
    /\ UNCHANGED <<now, window, redis, ops, returned, started, found, spc, pending,
                   wake, cycle, runs, busy, log, storageFactories>>

CreateActionCall(document) ==
    /\ reply' = [op |-> "Create", kind |-> "action", json |-> document,
                 result |-> CreateAction(document)]
    /\ UNCHANGED <<now, window, redis, ops, returned, started, found, spc, pending,
                   wake, cycle, runs, busy, log, storageFactories>>

\* json.Unmarshal of a document into a wrapper.
WatchWrapperDecode(document) ==
    /\ reply' = [op |-> "UnmarshalJSON", kind |-> "watch", json |-> document,
                 result |-> WatchWrapperUnmarshalJSON(document)]
    /\ UNCHANGED <<now, window, redis, ops, returned, started, found, spc, pending,
                   wake, cycle, runs, busy, log, storageFactories>>

ActionWrapperDecode(document) ==
    /\ reply' = [op |-> "UnmarshalJSON", kind |-> "action", json |-> document,
                 result |-> ActionWrapperUnmarshalJSON(document)]
    /\ UNCHANGED <<now, window, redis, ops, returned, started, found, spc, pending,
                   wake, cycle, runs, busy, log, storageFactories>>

NextWrapper ==
    \/ \E watch \in WrapperWatches \cup OtherStructs, nilSlices \in BOOLEAN :
           WatchRoundTrip(watch, nilSlices)
    \/ \E action \in ChatActions \cup MailgunActions \cup OtherStructs :
           ActionRoundTrip(action)
    \/ \E document \in WatchDocuments : CreateWatchCall(document)
    \/ \E document \in ActionDocuments : CreateActionCall(document)
    \/ \E document \in WatchDocuments : WatchWrapperDecode(document)
    \/ \E document \in ActionDocuments : ActionWrapperDecode(document)

SpecWrapper == InitHealthCheck /\ [][NextWrapper]_vars

(***************************************************************************)
(* SpecFactory: the storage factory (Create of the storage packages) and   *)
(* its registry.  A process starts with an empty storageFactories map;     *)
(* factories are registered in it by name, as the tests do it, and Create  *)
(* registers "redis" when it finds the map empty.                          *)
(***************************************************************************)
\* The configurations Create is called with: "type" and "dsn" each missing,
\* a string or a number; Redis listens on "up" and not on "down".
StorageConfigs ==
    {[k \in (IF type = NilValue THEN {} ELSE {"type"})
                \cup (IF dsn = NilValue THEN {} ELSE {"dsn"}) |->
         IF k = "type" THEN type ELSE dsn] :
        type \in {NilValue, JSONNumber(5)}
                    \cup {JSONString(t) : t \in {"", "redis", "test", "mysql"}},
        dsn \in {NilValue, JSONNumber(5), JSONString("up"), JSONString("down")}}

\* NewRedisStorage: the DSN is required, then redis.Dial.
NewRedisStorage(config) ==
    IF "dsn" \notin DOMAIN config
    THEN [err     |-> Errorf("the DSN configuration option is required for the Redis storage"),
          storage |-> NilValue]
    ELSE IF config["dsn"].json # "string" THEN Panicked
    ELSE IF config["dsn"].s # "up"
    THEN [err |-> Errorf("failed to connect to Redis"), storage |-> NilValue]
    ELSE [err |-> NilValue, storage |-> [dsn |-> config["dsn"].s, client |-> "connected"]]

\* NewTestStorage of the tests.
NewTestStorage(config) == [err |-> NilValue, storage |-> NilValue]

\* The factory registered under a name.
StorageFactory(name, config) ==
    IF name = "redis" THEN NewRedisStorage(config) ELSE NewTestStorage(config)

\* The map after the registration Create starts with.
Registered(factories) == IF factories = {} THEN {"redis"} ELSE factories

\* Create handing an unknown engine to the Redis factory.
StorageCreateAnyEngine(factories, config) ==
    IF "type" \notin DOMAIN config \/ config["type"] = JSONString("")
    THEN [err |-> Errorf("no storage engine provided"), storage |-> NilValue]
    ELSE NewRedisStorage(config)

\* Create(config) of the storage packages, on the map `factories`.
StorageCreate(factories, config) ==
    IF "type" \notin DOMAIN config
    THEN [err     |-> Errorf("the type configuration option is required"),
          storage |-> NilValue]
    ELSE IF config["type"].json # "string" THEN Panicked
    ELSE IF config["type"].s = ""
    THEN [err |-> Errorf("no storage engine provided"), storage |-> NilValue]
    ELSE IF config["type"].s \notin Registered(factories)
    THEN [err |-> Errorf("unknown storage engine"), storage |-> NilValue]
    ELSE LET r == StorageFactory(config["type"].s, config)
         IN  IF r = Panicked THEN Panicked
             ELSE IF r.err # NilValue THEN [err |-> r.err, storage |-> NilValue]
             ELSE r

\* storageFactories[name] = factory, as the tests register NewTestStorage.
RegisterFactory(name) ==
    /\ storageFactories' = storageFactories \cup {name}
    /\ UNCHANGED <<now, window, redis, ops, returned, started, found, spc, pending,
                   wake, cycle, runs, busy, log, reply>>

StorageCreateCall(config) ==
    /\ storageFactories' = Registered(storageFactories)
    /\ reply' = [op |-> "storage.Create", config |-> config,
                 factories |-> Registered(storageFactories),
                 result |-> StorageCreate(storageFactories, config)]
    /\ UNCHANGED <<now, window, redis, ops, returned, started, found, spc, pending,
                   wake, cycle, runs, busy, log>>

InitFactory ==
    /\ now = 1
    /\ window = 1
    /\ redis = EmptyRedis
    /\ ops = {}
    /\ returned = <<>>
    /\ started = [create |-> 0, update |-> 0]
    /\ found = NoFound
    /\ spc = "idle" /\ pending = {} /\ wake = 0 /\ cycle = 0
    /\ runs = {} /\ busy = Nil /\ log = NoLog
    /\ reply = [op |-> "none"]
    /\ storageFactories = {}

NextFactory ==
    \/ \E name \in {"test", "redis"} : RegisterFactory(name)
    \/ \E config \in StorageConfigs : StorageCreateCall(config)

SpecFactory == InitFactory /\ [][NextFactory]_vars

(***************************************************************************)
(* SpecWatchAPI: the trigger endpoint of the Watch API, POST               *)
(* /v1/:ids/trigger.  redis holds the Watches of the Watch storage by id,  *)
(* and reply the request the endpoint serves: its response, the goroutines *)
(* it started that have not run yet, and what they have done: evaluated    *)
(* holds, for each goroutine of a Watch that has run, the Watch it         *)
(* evaluated and the Action IDs Do returned, and triggered, for each       *)
(* goroutine of an Action ID that has run, the ID it called TriggerByID    *)
(* with.                                                                   *)
(***************************************************************************)
\* strings.Trim(s, " ")
RECURSIVE Trim(_)
Trim(s) ==
    IF s # <<>> /\ s[1] = " " THEN Trim(Tail(s))
    ELSE IF s # <<>> /\ s[Len(s)] = " " THEN Trim(SubSeq(s, 1, Len(s) - 1))
    ELSE s

\* StringToIntegers converting the elements as they are split.
StringToIntegersNoTrim(input) ==
    LET aString == Split(input)
        aInt    == [i \in DOMAIN aString |-> Atoi(aString[i])]
    IN  IF \E i \in DOMAIN aInt : ~aInt[i].ok
        THEN [err |-> TRUE, isNil |-> TRUE, aInt |-> {}]
        ELSE [err |-> FALSE, isNil |-> FALSE, aInt |-> {aInt[i].val : i \in DOMAIN aInt}]

\* util.StringToIntegers(input, ","): the integers as the keys of a map, or
\* a nil map and the error of the first element strconv.Atoi refuses.
StringToIntegers(input) ==
    LET aString == Split(input)
        aInt    == [i \in DOMAIN aString |-> Atoi(Trim(aString[i]))]
    IN  IF \E i \in DOMAIN aInt : ~aInt[i].ok
        THEN [err |-> TRUE, isNil |-> TRUE, aInt |-> {}]
        ELSE [err |-> FALSE, isNil |-> FALSE, aInt |-> {aInt[i].val : i \in DOMAIN aInt}]

\* The orders in which a range over a map visits its keys.
RangeOrders(keys) ==
    {order \in [1..Cardinality(keys) -> keys] :
        \A i, j \in DOMAIN order : i # j => order[i] # order[j]}

\* The ids parameter of the requests.
TriggerParams ==
    {<<"1">>, <<"2">>, <<"3">>, <<"x">>,
     <<"1", ",", "2">>, <<"1", ",", " ", "2">>, <<"2", ",", "1", ",", "2">>,
     <<"1", ",", "3">>, <<"3", ",", "2", ",", "1">>,
     <<"1", ",", "x">>, <<"1", ",", ",", "2">>, <<"1", ",", "2", ",">>,
     <<"1", ".", "2">>}

\* What the middleware has set in the gin context: main installs Storage;
\* Config is the other middleware of the program.
ContextKeys == {{"storage"}, {"storage", "config"}}

\* The Watches in the storage.
APIWatches ==
    {watch \in HealthCheckWatches :
        /\ watch.ActionsIds \in {<<4>>, <<4, 2>>}
        /\ watch.Statuses = <<200>>
        /\ watch.Conditions \in {<<>>, <<"success">>}}

WatchStores == UNION {[ids -> APIWatches] : ids \in SUBSET {1, 2}}

\* The responses the Watches' URLs give.
APIOutcomes ==
    {outcome \in HTTPOutcomes :
        outcome.err \/ outcome.Status \in {<<"2", "0", "0", " ", "O", "K">>, <<"5", "0", "0">>}}

\* Redis.Get of the Watch storage: the Watch, or nil and an error when the
\* key holds no value.
WatchStorageGet(store, id) ==
    IF id \in DOMAIN store
    THEN [err |-> NilValue, watch |-> store[id]]
    ELSE [err |-> Errorf("could not convert to bytes"), watch |-> NilValue]

\* What the endpoint leaves when it returns: the response, the Watches it
\* has fetched and the goroutines it has started, one for each of `routines`.
Served(sIDs, keys, status, watches, routines) ==
    [op |-> "v1Trigger", ids |-> sIDs, keys |-> keys, status |-> status,
     watches |-> watches, routines |-> routines, actionRoutines |-> {},
     evaluated |-> {}, triggered |-> {}]

\* The Watches fetched before the first id that storage.Get fails on.
RECURSIVE Fetched(_, _)
Fetched(store, order) ==
    IF order = <<>> \/ WatchStorageGet(store, Head(order)).err # NilValue THEN <<>>
    ELSE <<Head(order)>> \o Fetched(store, Tail(order))

\* v1Trigger starting the goroutine of a Watch as soon as it has fetched it.
v1TriggerEager(store, sIDs, keys, order) ==
    LET watches == Fetched(store, order)
    IN  IF StringToIntegers(sIDs).err THEN Served(sIDs, keys, 404, <<>>, {})
        ELSE IF Len(watches) < Len(order)
        THEN Served(sIDs, keys, 404, watches, DOMAIN watches)
        ELSE Served(sIDs, keys, 200, watches, DOMAIN watches)

\* v1Trigger: 404 when the ids do not convert, 404 at the first id with no
\* Watch; then, with every Watch fetched, a panic in c.MustGet("config")
\* when the context holds no configuration, or a goroutine for each Watch
\* and 200.  `order` is the order of the range over aIDsInt.
v1Trigger(store, sIDs, keys, order) ==
    LET watches == Fetched(store, order)
    IN  IF StringToIntegers(sIDs).err THEN Served(sIDs, keys, 404, <<>>, {})
        ELSE IF Len(watches) < Len(order) THEN Served(sIDs, keys, 404, watches, {})
        ELSE IF "config" \notin keys THEN Served(sIDs, keys, 500, watches, {})
        ELSE Served(sIDs, keys, 200, watches, DOMAIN watches)

V1TriggerCall(sIDs, keys, order) ==
    /\ order \in RangeOrders(StringToIntegers(sIDs).aInt)
    /\ reply' = v1Trigger(redis, sIDs, keys, order)
    /\ UNCHANGED <<now, window, redis, ops, returned, started, found, spc, pending,
                   wake, cycle, runs, busy, log, storageFactories>>

\* The goroutine started for the Watch at `index`: it reads the loop variable
\* `pointer`, which by then holds the Watch at `read`, evaluates that Watch and
\* starts a goroutine for each of the Action IDs.
WatchRoutine(index, read, outcome) ==
    /\ reply.op = "v1Trigger"
    /\ index \in reply.routines
    /\ read \in index..Len(reply.watches)
    /\ WatchDo(WatchStorageGet(redis, reply.watches[read]).watch, outcome) # Panicked
    /\ LET actionsIds ==
               WatchDo(WatchStorageGet(redis, reply.watches[read]).watch, outcome).ids
       IN  reply' = [reply EXCEPT
                        !.routines = @ \ {index},
                        !.evaluated = @ \cup {[routine |-> index, watch |-> reply.watches[read],
                                                 actionsIds |-> actionsIds]},
                        !.actionRoutines = @ \cup
                            {[watch |-> index, actionsIds |-> actionsIds, index |-> i] :
                                i \in DOMAIN actionsIds}]
    /\ UNCHANGED <<now, window, redis, ops, returned, started, found, spc, pending,
                   wake, cycle, runs, busy, log, storageFactories>>

\* The goroutine started for an Action ID: sdk.TriggerByID with the value the
\* loop variable `actionID` holds by then.
ActionRoutine(routine, read) ==
    /\ reply.op = "v1Trigger"
    /\ routine \in reply.actionRoutines
    /\ read \in routine.index..Len(routine.actionsIds)
    /\ reply' = [reply EXCEPT
                    !.actionRoutines = @ \ {routine},
                    !.triggered = @ \cup {[routine |-> routine.watch, index |-> routine.index,
                                            action |-> routine.actionsIds[read]]}]
    /\ UNCHANGED <<now, window, redis, ops, returned, started, found, spc, pending,
                   wake, cycle, runs, busy, log, storageFactories>>

InitWatchAPI ==
    /\ now = 1
    /\ window = 1
    /\ redis \in WatchStores
    /\ ops = {}
    /\ returned = <<>>
    /\ started = [create |-> 0, update |-> 0]
    /\ found = NoFound
    /\ CronIdle

NextWatchAPI ==
    \/ \E sIDs \in TriggerParams, keys \in ContextKeys :
           \E order \in RangeOrders(StringToIntegers(sIDs).aInt) :
               V1TriggerCall(sIDs, keys, order)
    \/ \E index \in 1..3, read \in 1..3, outcome \in APIOutcomes :
           WatchRoutine(index, read, outcome)
    \/ \E routine \in (IF reply.op = "v1Trigger" THEN reply.actionRoutines ELSE {}),
          read \in 1..2 :
           ActionRoutine(routine, read)

SpecWatchAPI == InitWatchAPI /\ [][NextWatchAPI]_vars

(***************************************************************************)
(* SpecUtil: util.StringToIntegers applied to the strings of at most       *)
(* MaxInputLen characters over digits, the delimiter, spaces, a sign and   *)
(* a letter.                                                               *)
(***************************************************************************)
MaxInputLen == 3   \* an input of StringToIntegers has at most MaxInputLen characters

UtilChars == {"1", "2", ",", " ", "-", "h"}

UtilInputs == UNION {[1..n -> UtilChars] : n \in 0..MaxInputLen}

StringToIntegersCall(input) ==
    /\ reply' = [op |-> "StringToIntegers", input |-> input,
                 result |-> StringToIntegers(input)]
    /\ UNCHANGED <<now, window, redis, ops, returned, started, found, spc, pending,
                   wake, cycle, runs, busy, log, storageFactories>>

NextUtil == \E input \in UtilInputs : StringToIntegersCall(input)

SpecUtil == InitHealthCheck /\ [][NextUtil]_vars

(***************************************************************************)
(* SpecScheduler: ms_watch_scheduler, the scheduler of Watches.  search    *)
(* loads the candidate Watches and sends them on the watches channel,      *)
(* sleeps SearchSleep seconds and starts again; a goroutine runs filter    *)
(* for each Watch received; run sends the Watch on the triggers channel,   *)
(* sleeps the Watch's interval and calls filter again; main calls trigger  *)
(* for each Watch it receives.  Here redis holds the source of candidates  *)
(* (what loadWatches returns), pending the Watches search has still to     *)
(* send, runs the filter goroutines and busy the Watch inside trigger; a   *)
(* Watch's _id is modelled by its number.                                  *)
(***************************************************************************)
MaxSchedTime   == 6   \* the clock of SpecScheduler runs from 1 to MaxSchedTime
MaxSchedCycles == 2   \* calls of search in SpecScheduler

\* time.Sleep(5 * time.Second) of search, in seconds.
SearchSleep == 5

\* A Watch of the scheduler.
SchedWatch(id, start, end, interval, enabled) ==
    [id |-> id, start |-> start, end |-> end, interval |-> interval,
     enabled |-> enabled, active |-> FALSE]

\* What loadWatches returns: the two Watches of the source, and the lists
\* another source of candidates gives.
LoadWatchesInputs ==
    {<<SchedWatch(1, Nil, Nil, 1, TRUE), SchedWatch(2, Nil, Nil, 3, TRUE)>>,
     <<SchedWatch(1, Nil, Nil, 3, FALSE), SchedWatch(2, Nil, Nil, 3, TRUE)>>,
     <<SchedWatch(1, 2, Nil, 3, TRUE)>>,
     <<SchedWatch(1, Nil, 3, 1, TRUE)>>,
     <<SchedWatch(1, Nil, Nil, 3, FALSE)>>}

loadWatches == redis

NoSchedLog == [sent |-> {}, triggered |-> {}]

\* search: newWatches := loadWatches()
SchedSearch ==
    /\ spc = "search" /\ cycle < MaxSchedCycles
    /\ pending' = loadWatches
    /\ cycle' = cycle + 1
    /\ spc' = "send"
    /\ UNCHANGED <<now, window, redis, ops, returned, started, found, wake, runs,
                   busy, log, reply, storageFactories>>

\* search: watches <- watch, received by the goroutine of main: go filter(...).
SchedSend ==
    /\ spc = "send" /\ pending # <<>>
    /\ pending' = Tail(pending)
    /\ runs' = runs \cup {[cycle |-> cycle, watch |-> Head(pending),
                            pc |-> "filter", wake |-> 0]}
    /\ UNCHANGED <<now, window, redis, ops, returned, started, found, spc, wake,
                   cycle, busy, log, reply, storageFactories>>

\* search: time.Sleep(5 * time.Second) begins.
SchedSleep ==
    /\ spc = "send" /\ pending = <<>>
    /\ wake' = now + SearchSleep
    /\ spc' = "sleep"
    /\ UNCHANGED <<now, window, redis, ops, returned, started, found, pending,
                   cycle, runs, busy, log, reply, storageFactories>>

\* search: time.Sleep returns and search calls itself.
SchedWake ==
    /\ spc = "sleep" /\ now >= wake
    /\ spc' = "search"
    /\ UNCHANGED <<now, window, redis, ops, returned, started, found, pending,
                   wake, cycle, runs, busy, log, reply, storageFactories>>

\* filter: run(watch, triggers) inside the Watch's start and end, or return.
SchedFilter(r) ==
    /\ Alive /\ r \in runs /\ r.pc = "filter"
    /\ LET afterStart == r.watch.start = Nil \/ now > r.watch.start
           beforeEnd  == r.watch.end = Nil \/ now < r.watch.end
       IN  runs' = IF afterStart /\ beforeEnd
                   THEN (runs \ {r}) \cup {[r EXCEPT !.pc = "run"]}
                   ELSE runs \ {r}
    /\ UNCHANGED <<now, window, redis, ops, returned, started, found, spc, pending,
                   wake, cycle, busy, log, reply, storageFactories>>

\* run: triggers <- watch, received by main, which calls trigger; then
\* time.Sleep(watch.interval) begins.
SchedRun(r) ==
    /\ Alive /\ r \in runs /\ r.pc = "run" /\ busy = Nil
    /\ busy' = r.watch.id
    /\ runs' = (runs \ {r}) \cup {[r EXCEPT !.pc = "sleep", !.wake = now + r.watch.interval]}
    /\ log' = [log EXCEPT !.sent = @ \cup {[cycle |-> r.cycle, watch |-> r.watch, at |-> now]}]
    /\ UNCHANGED <<now, window, redis, ops, returned, started, found, spc, pending,
                   wake, cycle, reply, storageFactories>>

\* run: time.Sleep returns and run calls filter.
SchedRunWake(r) ==
    /\ Alive /\ r \in runs /\ r.pc = "sleep" /\ now >= r.wake
    /\ runs' = (runs \ {r}) \cup {[r EXCEPT !.pc = "filter"]}
    /\ UNCHANGED <<now, window, redis, ops, returned, started, found, spc, pending,
                   wake, cycle, busy, log, reply, storageFactories>>

\* trigger returns, or panics on the error of client.Do.
SchedTrigger(panics) ==
    /\ Alive /\ busy # Nil
    /\ busy' = Nil
    /\ log' = [log EXCEPT !.triggered = @ \cup {busy}]
    /\ spc' = IF panics THEN "panic" ELSE spc
    /\ UNCHANGED <<now, window, redis, ops, returned, started, found, pending,
                   wake, cycle, runs, reply, storageFactories>>

InitScheduler ==
    /\ now = 1
    /\ window = SearchSleep
    /\ redis \in LoadWatchesInputs
    /\ ops = {}
    /\ returned = <<>>
    /\ started = [create |-> 0, update |-> 0]
    /\ found = NoFound
    /\ spc = "search" /\ pending = <<>> /\ wake = 0 /\ cycle = 0
    /\ runs = {} /\ busy = Nil /\ log = NoSchedLog /\ reply = NoReply
    /\ storageFactories = {}

NextScheduler ==
    \/ Alive /\ SchedSearch
    \/ Alive /\ SchedSend
    \/ Alive /\ SchedSleep
    \/ Alive /\ SchedWake
    \/ \E r \in runs : SchedFilter(r)
    \/ \E r \in runs : SchedRun(r)
    \/ \E r \in runs : SchedRunWake(r)
    \/ \E panics \in BOOLEAN : SchedTrigger(panics)
    \/ TickTo(MaxSchedTime)

SpecScheduler == InitScheduler /\ [][NextScheduler]_vars

(***************************************************************************)
(* Claims about Storage.Search and Storage.Create.                         *)
(***************************************************************************)
\* The Schedules of the database that decode, each with its id.
Stored(rd) ==
    {Get(rd, id).schedule : id \in {i \in DOMAIN rd.hashes : ~Get(rd, i).err}}

\* The due-invariant of the data model.
Due(s, T1, T2) ==
    /\ s.Enabled
    /\ s.Last = Nil \/ s.Last + s.Interval < T2
    /\ s.Start = Nil \/ s.Start <= T2
    /\ s.Stop = Nil \/ s.Stop >= T1

FoundIDs(f) == {s.ID : s \in f.schedules}

C2_SearchOnlyInsideBounds ==
    \A s \in found.schedules :
        /\ ~(s.Start # Nil /\ s.Start > found.T2)
        /\ ~(s.Stop # Nil /\ s.Stop < found.T1)

\* C3: the ids returned by Create calls are pairwise distinct.
C3_CreateIDsDistinct ==
    \A i, j \in 1..Len(returned) : i # j => returned[i] # returned[j]

\* C6: a record that cannot be decoded does not abort Search: every other
\* record the search script selected is returned.
C6_MalformedRecordIsolated ==
    [][found' # found =>
          \A h \in SearchScript(redis, found'.T1, found'.T2) :
              ~fromHashFields(h).err => fromHashFields(h).schedule \in found'.schedules]_vars

\* C10: a Schedule whose stored enabled field is false ("0") is not among
\* the Schedules a Search returns, whatever its start, stop, last and
\* interval.
C10_DisabledNeverReturned ==
    [][found' # found =>
          \A id \in DOMAIN redis.hashes :
              Field(redis.hashes[id], "enabled") = <<"0">> => id \notin FoundIDs(found')]_vars

\* A Search returned a Schedule and left out a disabled one whose start
\* score put it among the candidates and which has no last.
C10_Witness ==
    /\ found.n = 1 /\ ~found.err /\ found.schedules # {}
    /\ \E id \in StartCandidates(redis, found.T2) :
          /\ Field(HGETALL(redis, id), "enabled") = <<"0">>
          /\ "last" \notin DOMAIN HGETALL(redis, id)
          /\ id \notin FoundIDs(found)

(***************************************************************************)
(* Claims about the pipeline of ms_watch_cron.                             *)
(***************************************************************************)
\* The filter steps that gave at least one Watch ID: the dispatches.
Dispatched == {f \in log.filtered : f.ids # <<>>}

\* C4: when a Schedule dispatched in one poll cycle is dispatched again in
\* a later cycle, the last recorded for the earlier dispatch satisfies
\* last + interval < T2 of the later cycle.
C4_NoDoubleTrigger ==
    \A d1 \in Dispatched, d2 \in Dispatched :
        (d1.schedule.ID = d2.schedule.ID /\ d1.cycle < d2.cycle) =>
            \A rec \in log.recorded :
                (rec.cycle = d1.cycle /\ rec.id = d1.schedule.ID) =>
                    rec.last + d1.schedule.Interval < d2.T2

\* C5: a Search that returns an error does not end the process: search
\* goes on to its sleep of one window.
C5_SearchErrorKeepsRunning ==
    [][(found'.n # found.n /\ found'.err) => (spc' = "sleep" /\ wake' = now + window)]_vars

\* The filter step of run goroutine r is taken by this step.
FilterStep(r) == r \in runs /\ r.pc = "Do" /\ r \notin runs'

\* After the step, run goroutine r has Watch IDs to send to the triggers channel.
Contributes(r) ==
    \E r2 \in runs' : r2.cycle = r.cycle /\ r2.schedule = r.schedule /\ r2.pc = "send"

\* The stored record of id is disabled, or instant t is outside its start/stop.
StoredOut(rd, id, t) ==
    LET g == Get(rd, id)
    IN  /\ ~g.err
        /\ \/ ~g.schedule.Enabled
           \/ g.schedule.Start # Nil /\ t <= g.schedule.Start
           \/ g.schedule.Stop # Nil /\ t >= g.schedule.Stop

\* The Schedule as Search returned it has instant t outside its start/stop.
SnapshotOut(s, t) ==
    \/ s.Start # Nil /\ t <= s.Start
    \/ s.Stop # Nil /\ t >= s.Stop

\* C7 as claimed: a Schedule that is disabled in the store, or whose stored
\* start/stop excludes now, when its filter step runs contributes no Watch ID.
C7_FilterSeesStore ==
    [][\A r \in runs :
          (FilterStep(r) /\ StoredOut(redis, r.schedule.ID, now)) => ~Contributes(r)]_vars

\* C7 as amended: a Schedule whose start/stop, as Search returned them,
\* exclude now when its filter step runs contributes no Watch ID.
C7_FilterSeesSnapshot ==
    [][\A r \in runs :
          (FilterStep(r) /\ SnapshotOut(r.schedule, now)) => ~Contributes(r)]_vars

\* A filter step gave no Watch ID for a Schedule that has Watch IDs.
C7_Witness ==
    \E f \in log.filtered : f.ids = <<>> /\ f.schedule.WatchesIDs # <<>>

\* Update of last was issued for the Schedule id by the run goroutine of cycle c.
Issued(c, id) ==
    \/ \E op \in ops : op.kind = "last" /\ op.cycle = c /\ op.id = id
    \/ \E rec \in log.recorded : rec.cycle = c /\ rec.id = id

C9_IssuedIffIDs ==
    \A f \in log.filtered : (f.ids # <<>>) <=> Issued(f.cycle, f.schedule.ID)

C9_LastOnlyAfterIDs ==
    [][\A id \in DOMAIN redis.hashes :
          Field(redis'.hashes[id], "last") # Field(redis.hashes[id], "last") =>
              \E op \in ops :
                  /\ op.kind = "last" /\ op.id = id /\ op.pc = "HMSET"
                  /\ ~op.updateTimestamp
                  /\ \E f \in Dispatched : f.cycle = op.cycle /\ f.schedule.ID = id]_vars

C9_UpdatedAtKept ==
    [][\A op \in ops :
          (op.kind = "last" /\ op.pc = "HMSET" /\ op \notin ops') =>
              Field(redis'.hashes[op.id], "updated_at")
                  = Field(redis.hashes[op.id], "updated_at")]_vars

\* C9: Update with last = now and updateTimestamp = false is issued for a
\* Schedule exactly when its filter step gave a Watch ID, the stored last
\* of a Schedule changes only through such an Update, and that Update
\* leaves the stored updated_at as it was.
C9_Bookkeeping == C9_IssuedIffIDs /\ C9_LastOnlyAfterIDs /\ C9_UpdatedAtKept

\* The first poll cycle returned the Schedule, its filter passed, Watch 7
\* was handed to the trigger loop, and the stored last is the one the
\* cycle's Update recorded.
E2EDone(rec) ==
    /\ rec.cycle = 1 /\ rec.id = 1
    /\ \E f \in Dispatched : f.cycle = 1 /\ f.schedule.ID = 1 /\ f.ids = <<7>>
    /\ \E g \in log.triggered : g.id = 1 /\ g.watch = 7
    /\ "last" \in DOMAIN HGETALL(redis, 1)

\* C8 as claimed: the last that the first poll cycle records for the
\* Schedule is an instant of that cycle's window [T1, T2).
C8_LastInsideWindow ==
    \A rec \in log.recorded :
        rec.cycle = 1 => (rec.T1 <= rec.last /\ rec.last < rec.T2)

\* C8 as amended: the Schedule is returned by the first Search, passes the
\* filter, Watch 7 is handed to the trigger loop, and eventually its stored
\* last is set, to an instant at or after T1 of that poll cycle.
C8_EndToEnd ==
    /\ <>(\E rec \in log.recorded : E2EDone(rec))
    /\ [](\A rec \in log.recorded : rec.cycle = 1 => rec.T1 <= rec.last)

\* The end-to-end scenario completed with last inside the window.
C8_Witness ==
    \E rec \in log.recorded :
        /\ E2EDone(rec)
        /\ rec.T1 <= rec.last /\ rec.last < rec.T2
        /\ Atoi(HGETALL(redis, 1)["last"]).val = rec.last

(***************************************************************************)
(* More claims about Storage.Search.                                       *)
(***************************************************************************)
\* C11: a Search never returns a Schedule whose last is set and has
\* last + interval >= T2, and an enabled candidate with no last is not
\* removed by the filter of the script.
C11_LastIntervalFilter ==
    [][found' # found =>
          /\ \A s \in found'.schedules :
                s.Last # Nil => s.Last + s.Interval < found'.T2
          /\ ~found'.err =>
                \A id \in StartCandidates(redis, found'.T2)
                             \cup StopCandidates(redis, found'.T1) :
                    (/\ "last" \notin DOMAIN HGETALL(redis, id)
                     /\ Field(HGETALL(redis, id), "enabled") # <<"0">>)
                        => id \in FoundIDs(found')]_vars

\* A Search returned a Schedule that has no last and left out an enabled
\* candidate whose last + interval is T2 or later.
C11_Witness ==
    /\ found.n = 1 /\ ~found.err
    /\ \E s \in found.schedules : s.Last = Nil
    /\ \E id \in StartCandidates(redis, found.T2) \ FoundIDs(found) :
          LET hash == HGETALL(redis, id)
          IN  /\ Field(hash, "enabled") = <<"1">>
              /\ "last" \in DOMAIN hash
              /\ Atoi(hash["last"]).val + Atoi(hash["interval"]).val >= found.T2

(***************************************************************************)
(* Claims about the conversion of Schedules and about Update.              *)
(***************************************************************************)
\* C12: decoding the Hash fields that encode a Schedule succeeds and gives
\* the Schedule back: when the Hash of a Schedule holds exactly the fields
\* toHashFields made of it, Get returns that Schedule.
C12_RoundTrip ==
    \A op \in ops :
        (op.pc # "HMSET" /\ HGETALL(redis, op.id) = toHashFields(op.schedule)) =>
            /\ ~Get(redis, op.id).err
            /\ Get(redis, op.id).schedule = op.schedule

\* C13: when an Update(s, updateTimestamp) returns, the Schedule that Get
\* decodes for s.ID has every field equal to s as set stored it (updatedAt
\* the instant of the Update when updateTimestamp is true), the optional
\* fields that are unset in s included.
C13_UpdateOverwrites ==
    [][\A op \in ops :
          (op.kind = "update" /\ op.pc = "ZADDStop" /\ op \notin ops') =>
              (~Get(redis', op.id).err => Get(redis', op.id).schedule = op.schedule)]_vars

\* C14: a Create that begins while no other Create is under way gets id 1
\* when the id index is empty and otherwise one more than the largest id of
\* the index, which is larger than every id returned before.
C14_SequentialIDs ==
    [][\A op \in ops' \ ops :
          (op.kind = "create" /\ ~\E o \in ops : o.kind = "create") =>
              /\ redis.ids = {} => op.id = 1
              /\ redis.ids # {} =>
                    (op.id - 1 \in redis.ids /\ \A o \in redis.ids : o < op.id)
              /\ \A i \in 1..Len(returned) : returned[i] < op.id]_vars

\* Two Create calls returned, the first with id 1 and the second with id 2.
C14_Witness == ops = {} /\ returned = <<1, 2>>

(***************************************************************************)
(* Claims about the poll loop and the trigger loop of ms_watch_cron.       *)
(***************************************************************************)
\* C15: the poll loop does not wait for the trigger loop: in every poll
\* cycle search gets from its Search to its sleep, and once the sleep is
\* over Search is called again, whether or not a call of the Watch API
\* ever returns.
C15_PollNotBlocked ==
    /\ \A c \in 1..MaxCycles :
          (cycle = c /\ spc = "send") ~> (cycle = c /\ spc = "sleep")
    /\ \A c \in 1..(MaxCycles - 1) :
          (cycle = c /\ spc = "sleep" /\ now >= wake) ~> (cycle = c + 1)

\* The second Search ran while the first call of the Watch API had not
\* returned and another Watch ID was waiting for the trigger loop.
C15_Witness ==
    /\ cycle = 2 /\ busy # Nil /\ Cardinality(log.triggered) = 1
    /\ \E r \in runs : r.cycle = 1 /\ r.pc = "send"

\* C16: a Watch ID that a run goroutine has ready for the trigger loop can
\* be handed over, and its call of the Watch API begin, while the call for
\* another Watch ID has not returned.
C16_TriggersIndependent ==
    (\E r \in runs : r.pc = "send") => ENABLED (\E r \in runs : RunSend(r))

\* C17: a call of the Watch API that returns an error leaves the process
\* running and the trigger loop free for the next Watch ID, and starts no
\* other call: every Watch ID handed to the trigger loop has one call.
C17_TriggerErrorsSkipped ==
    /\ [][(log'.call.n # log.call.n /\ log'.call.err # "nil") =>
             /\ Alive' /\ busy' = Nil
             /\ log'.errors = log.errors \cup {busy}
             /\ log'.triggered = log.triggered /\ runs' = runs]_vars
    /\ [](log.call.n + (IF busy = Nil THEN 0 ELSE 1) = Cardinality(log.triggered))

\* The call for Watch 7 returned an error and the trigger loop went on to
\* call the Watch API for Watch 8.
C17_Witness ==
    /\ log.errors = {7} /\ log.call.watch = 7 /\ log.call.err # "nil"
    /\ busy = 8

\* C18: a call of TriggerByID makes one POST request, to
\* {baseURL}/v{version}/{id}/trigger, and returns nil exactly when a
\* response arrived with status 200; a failure of the request is the error
\* returned.
C18_TriggerByID ==
    log.call.n > 0 =>
        /\ Len(log.call.requests) = 1
        /\ log.call.requests[1].method = "POST"
        /\ log.call.requests[1].url =
              <<"w", "/", "v", "1", "/">> \o Itoa(log.call.watch)
                  \o <<"/", "t", "r", "i", "g", "g", "e", "r">>
        /\ log.call.err = "nil" <=>
              (log.call.outcome.net = "ok" /\ log.call.outcome.status = 200)
        /\ log.call.outcome.net = "failed" => log.call.err = "network"

\* A call returned an error and a later call, for another Watch ID,
\* returned nil for a response of status 200.
C18_Witness ==
    /\ log.errors # {} /\ log.call.n > 1
    /\ log.call.err = "nil" /\ log.call.outcome.status = 200
    /\ log.call.watch \notin log.errors

\* C19: two dispatches of the same Schedule are at least its interval
\* apart: when a filter step dispatches a Schedule, every earlier poll
\* cycle that dispatched it (at its T1 at the earliest) began at least
\* one interval before now.
C19_DispatchSpacing ==
    [][\A r \in runs :
          (FilterStep(r) /\ Contributes(r)) =>
              \A d \in Dispatched :
                  (d.schedule.ID = r.schedule.ID /\ d.cycle < r.cycle) =>
                      now - d.T1 >= r.schedule.Interval]_vars

(***************************************************************************)
(* Claims about a storage whose client is nil.                             *)
(***************************************************************************)
\* C20: every storage operation called while the client is nil returns an
\* error, the process keeps running and the database is left as it was.
C20_NoClientReturnsError ==
    /\ [](Alive /\ \A res \in log.results : res.err)
    /\ [][redis' = redis]_vars


(***************************************************************************)
(* Claims about Storage.Get.                                               *)
(***************************************************************************)
\* The error Get returns for the Hash stored under id.
GetError(rd, id) == fromHashFieldsError(HGETALL(rd, id))

\* s is the decimal form of no integer.
NotInteger(s) == \A n \in -9..99 : s # Itoa(n)

\* C21: Get(id) with no record stored for id returns no Schedule and an
\* error, and that error differs from the error Get returns for every record
\* that is stored, so that a caller can tell "not found" from a decode error.
C21_NotFoundDistinguishable ==
    (reply.op = "Get" /\ ~reply.stored) =>
        /\ reply.schedule = NilValue
        /\ reply.err # NilValue
        /\ \A id \in DOMAIN redis.hashes : GetError(redis, id) # reply.err

\* C21, the part of it that holds: Get(id) with no record stored for id
\* returns no Schedule and an error.
C21_NeverCreatedNoSchedule ==
    (reply.op = "Get" /\ ~reply.stored) =>
        (reply.schedule = NilValue /\ reply.err # NilValue)

\* C22: Get(id) on a stored record in which enabled is neither "1" nor "0",
\* or interval, a timestamp or a watch id is not an integer, returns an
\* error and no Schedule.
Malformed(hash) ==
    \/ Field(hash, "enabled") \notin {<<"1">>, <<"0">>}
    \/ NotInteger(Field(hash, "interval"))
    \/ \E f \in {"start", "stop", "last", "created_at", "updated_at"} :
           f \in DOMAIN hash /\ NotInteger(hash[f])
    \/ LET ids == Split(Field(hash, "watches_ids"))
       IN  \E i \in 1..Len(ids) : NotInteger(ids[i])

C22_MalformedRecordIsError ==
    (reply.op = "Get" /\ reply.stored /\ Malformed(reply.hashFields)) =>
        (reply.err # NilValue /\ reply.schedule = NilValue)

\* A Get that read a record whose only defect is its enabled field.
C22_Witness ==
    /\ reply.op = "Get" /\ reply.stored
    /\ Field(reply.hashFields, "enabled") \notin {<<"1">>, <<"0">>}
    /\ ~Malformed([reply.hashFields EXCEPT !["enabled"] = <<"1">>])
    /\ reply.err # NilValue

(***************************************************************************)
(* Claims about the indices Redis.set maintains.                           *)
(***************************************************************************)
\* The time a stored record holds in a field, in nanoseconds; 0 without it.
StoredTime(hash, field) ==
    IF field \in DOMAIN hash THEN Atoi(hash[field]).val ELSE 0

IndexConsistent(rd, id) ==
    /\ id \in rd.ids
    /\ id \in DOMAIN rd.start /\ rd.start[id] = StoredTime(rd.hashes[id], "start")
    /\ id \in DOMAIN rd.stop /\ rd.stop[id] = StoredTime(rd.hashes[id], "stop")

\* C23: when every Create and Update call made so far has returned, the id
\* index holds the id of every stored Schedule, its start-index score is the
\* start of its stored record (0 without a start) and its stop-index score
\* is the stop of its stored record (0 without a stop).
C23_IndexConsistency ==
    ops = {} => \A id \in DOMAIN redis.hashes : IndexConsistent(redis, id)

(***************************************************************************)
(* Claims about the Health Check Watch.                                    *)
(***************************************************************************)
\* The number a status line starts with.
StatusCode(status) == DigitsVal(SubSeq(status, 1, 3))

InStatuses(watch, code) == \E i \in DOMAIN watch.Statuses : watch.Statuses[i] = code

\* C24: data() sets the Result to "inaccessible" when the GET fails, to
\* "status_mismatch" when a response arrives whose status is not one of the
\* Watch's statuses and to "success" when it is one of them; every call
\* produces one of the three.
C24_DataResult ==
    reply.op = "data" =>
        /\ reply.watch # Panicked
        /\ reply.watch.result.Status \in {"inaccessible", "status_mismatch", "success"}
        /\ reply.watch.result.Status = "inaccessible" <=> reply.outcome.err
        /\ reply.watch.result.Status = "success" <=>
               /\ ~reply.outcome.err
               /\ InStatuses(reply.before, StatusCode(reply.outcome.Status))
        /\ reply.watch.result.Status = "status_mismatch" <=>
               /\ ~reply.outcome.err
               /\ ~InStatuses(reply.before, StatusCode(reply.outcome.Status))

\* A response whose status is not among the statuses of a Watch that has some.
C24_Witness ==
    /\ reply.op = "data" /\ ~reply.outcome.err
    /\ reply.before.Statuses = <<200, 201>>
    /\ StatusCode(reply.outcome.Status) = 404
    /\ reply.watch.result.Status = "status_mismatch"

\* A Condition passes: ConditionSuccess iff the status is "success",
\* ConditionFailure iff it is anything else.
Passes(condition, status) ==
    (condition = "success" /\ status = "success")
        \/ (condition = "failure" /\ status # "success")

\* C25: evaluate() is true iff every Condition of the Watch passes on the
\* Result, whatever the Result status; with no Condition it is true.
C25_EvaluateIsConjunction ==
    reply.op = "evaluate" =>
        /\ reply.ok <=> \A i \in DOMAIN reply.watch.Conditions :
                            Passes(reply.watch.Conditions[i], reply.watch.result.Status)
        /\ reply.watch.Conditions = <<>> => reply.ok

\* The first Condition passes and the second fails on a Result that is not
\* "success".
C25_Witness ==
    /\ reply.op = "evaluate"
    /\ reply.watch.Conditions = <<"failure", "success">>
    /\ reply.watch.result.Status = "inaccessible"
    /\ ~reply.ok

Observable(x) ==
    [f \in (DOMAIN x) \ {"result", "httpClient", "mailgunClient"} |-> x[f]]

RegisteredTypes(kind) == IF kind = "watch" THEN watchFactories ELSE actionFactories

\* C27: when Wrapper accepts x, the type it chooses has a factory in Create,
\* and Create on the JSON encoding of the wrapper returns an entity of the
\* same struct type whose exported fields are those of x.
C27_WrapperRoundTrip ==
    (reply.op = "RoundTrip" /\ reply.wrapped.err = NilValue) =>
        /\ reply.wrapped.wrapper.Type \in RegisteredTypes(reply.kind)
        /\ reply.created # Panicked
        /\ reply.created.err = NilValue
        /\ reply.created.entity.pkg = reply.x.pkg
        /\ Observable(reply.created.entity) = Observable(reply.x)

\* C27 for every exported field but the Actions of a Watch.
C27_RoundTripButActions ==
    (reply.op = "RoundTrip" /\ reply.wrapped.err = NilValue) =>
        /\ reply.wrapped.wrapper.Type \in RegisteredTypes(reply.kind)
        /\ reply.created # Panicked
        /\ reply.created.err = NilValue
        /\ reply.created.entity.pkg = reply.x.pkg
        /\ \A f \in (DOMAIN Observable(reply.x)) \ {"Actions"} :
               f \in DOMAIN reply.created.entity /\ reply.created.entity[f] = reply.x[f]

PayloadKey(kind) == IF kind = "watch" THEN "watch" ELSE "action"

MissingTypeErrors ==
    {Errorf("JSON object that does not contain the Watch's type"),
     Errorf("JSON object that does not contain the Action's type"),
     Errorf("cannot decode WatchWrapper JSON object without the type"),
     Errorf("cannot decode ActionWrapper JSON object without the type")}

UnknownTypeErrors ==
    {Errorf("unknown Watch factory for type"), Errorf("unknown Action factory for type"),
     Errorf("unknown Watch type"), Errorf("unknown Action type")}

\* The call returned the error and no entity.
FailedWith(r, errors) ==
    /\ r.result # Panicked
    /\ r.result.err \in errors
    /\ IF r.op = "Create" THEN r.result.entity = NilValue
       ELSE IF r.kind = "watch" THEN r.result.wrapper.Watch = NilValue
       ELSE r.result.wrapper.Action = NilValue

NoStorage(r) == r # Panicked /\ r.err # NilValue /\ r.storage = NilValue

\* C29: Create(config) returns an error and no storage when config has no
\* "type", when "type" is the empty string and when no factory is registered
\* under "type"; with a registered "type" it returns what that factory
\* returns: its error, or with no error its storage (for the factory of
\* the tests, no error and no storage).
C29_StorageCreate ==
    reply.op = "storage.Create" =>
        LET config == reply.config
            type   == IF "type" \in DOMAIN config THEN config["type"] ELSE JSONNull
        IN  /\ "type" \notin DOMAIN config => NoStorage(reply.result)
            /\ type.json = "string" =>
                   /\ type.s = "" => NoStorage(reply.result)
                   /\ type.s \notin reply.factories => NoStorage(reply.result)
                   /\ (type.s = "test" /\ "test" \in reply.factories) =>
                          reply.result = [err |-> NilValue, storage |-> NilValue]
                   /\ (type.s # "" /\ type.s \in reply.factories) =>
                          LET r == StorageFactory(type.s, config)
                          IN  IF r = Panicked THEN reply.result = Panicked
                              ELSE /\ reply.result # Panicked
                                   /\ reply.result.err = r.err
                                   /\ r.err = NilValue =>
                                          reply.result.storage = r.storage

\* Create of an unknown engine on a map that holds the two factories, with a
\* DSN Redis listens on.
C29_Witness ==
    /\ reply.op = "storage.Create"
    /\ reply.config = [type |-> JSONString("mysql"), dsn |-> JSONString("up")]
    /\ reply.factories = {"redis", "test"}
    /\ reply.result.err = Errorf("unknown storage engine")

(***************************************************************************)
(* Claims about the trigger endpoint of the Watch API.                     *)
(***************************************************************************)
\* An element of the comma-separated ids that is no integer, or one that is
\* the id of no Watch in the storage.
BadID(sIDs, store) ==
    \E i \in DOMAIN Split(sIDs) :
        LET id == Atoi(Trim(Split(sIDs)[i]))
        IN  ~id.ok \/ id.val \notin DOMAIN store

\* C30: when an id of a trigger request does not parse as an integer or has
\* no stored Watch, the request starts no goroutine, no Watch is evaluated
\* and no Action is triggered for it.
C30_AllOrNothing ==
    (reply.op = "v1Trigger" /\ BadID(reply.ids, redis)) =>
        /\ reply.status = 404
        /\ reply.routines = {} /\ reply.actionRoutines = {}
        /\ reply.evaluated = {} /\ reply.triggered = {}

\* A request for the stored Watch 1 and the missing Watch 3 that fetched
\* Watch 1 before it failed on Watch 3.
C30_Witness ==
    /\ reply.op = "v1Trigger"
    /\ reply.ids = <<"1", ",", "3">>
    /\ 1 \in DOMAIN redis
    /\ reply.watches = <<1>>
    /\ reply.status = 404
    /\ reply.evaluated = {}

\* A request whose ids all have Watches, two of them evaluated and an Action
\* triggered.
C30_AllTriggered ==
    /\ reply.op = "v1Trigger"
    /\ ~BadID(reply.ids, redis)
    /\ {done.watch : done \in reply.evaluated} = {1, 2}
    /\ reply.triggered # {}

(***************************************************************************)
(* Claims about util.StringToIntegers.                                     *)
(***************************************************************************)
\* The elements of input between its commas: the pairs <<first, last>> of
\* positions that bound a stretch without a comma, from the start or a comma
\* to a comma or the end.
Elements(input) ==
    {SubSeq(input, first, last) :
        <<first, last>> \in
            {p \in (1..(Len(input) + 1)) \X (0..Len(input)) :
                /\ p[2] >= p[1] - 1
                /\ p[1] = 1 \/ input[p[1] - 1] = ","
                /\ p[2] = Len(input) \/ input[p[2] + 1] = ","
                /\ \A i \in p[1]..p[2] : input[i] # ","}}

\* C31: StringToIntegers(input, ",") returns the set of the integers that
\* the elements of input are once the spaces around them are trimmed, and no
\* error; when an element is no integer it returns an error and a nil map.
C31_StringToIntegers ==
    reply.op = "StringToIntegers" =>
        IF \E element \in Elements(reply.input) : ~Atoi(Trim(element)).ok
        THEN reply.result.err /\ reply.result.isNil
        ELSE /\ ~reply.result.err
             /\ ~reply.result.isNil
             /\ reply.result.aInt =
                    {Atoi(Trim(element)).val : element \in Elements(reply.input)}

\* An input of two equal elements.
C31_Witness ==
    /\ reply.op = "StringToIntegers"
    /\ reply.input = <<"2", ",", "2">>
    /\ reply.result.aInt = {2}
    /\ ~reply.result.err

\* C32: the filter step decides with the time at which it runs: it gives the
\* Schedule's Watch IDs iff (start is unset or now is after start) and (stop
\* is unset or now is before stop), and no ID otherwise, whatever the time
\* was when the Search that returned the Schedule began.
C32_FilterAtFilterTime ==
    [][\A r \in runs :
          FilterStep(r) =>
              LET schedule == r.schedule
                  inside   == /\ schedule.Start = Nil \/ now > schedule.Start
                              /\ schedule.Stop = Nil \/ now < schedule.Stop
              IN  [cycle |-> r.cycle, T1 |-> r.T1, T2 |-> r.T2, schedule |-> schedule,
                   ids |-> IF inside THEN schedule.WatchesIDs ELSE <<>>]
                      \in log'.filtered]_vars

\* A Schedule with Watch IDs and no start, whose stop was still to come when
\* the Search began, gave no Watch ID at its filter step.
C32_Witness ==
    \E f \in log.filtered :
        /\ f.ids = <<>> /\ f.schedule.WatchesIDs # <<>>
        /\ f.schedule.Start = Nil
        /\ f.schedule.Stop # Nil /\ f.T1 < f.schedule.Stop

C37_OneLoopPerWatch ==
    /\ \A r1 \in runs, r2 \in runs : r1.watch.id = r2.watch.id => r1 = r2
    /\ \A s1 \in log.sent, s2 \in log.sent :
           (s1 # s2 /\ s1.watch.id = s2.watch.id /\ s1.at <= s2.at) =>
               s2.at - s1.at >= s1.watch.interval

\* The calls of TriggerByID made for the Schedule id as the Search of
\* cycle c returned it.
TriggersOf(c, id) == {g \in log.triggered : g.cycle = c /\ g.id = id}

\* The run goroutine of the Schedule id of cycle c has not returned.
Running(c, id) == \E r \in runs : r.cycle = c /\ r.schedule.ID = id

\* C34: TriggerByID is called for a Watch ID only as an element of the
\* watchesIDs of a Schedule that a Search returned and whose filter step
\* passed; a Schedule whose filter step failed causes no call, and one whose
\* filter step passed causes one call for each element of its watchesIDs,
\* all of them made once its run goroutine has returned.
C34_NoSpuriousTriggers ==
    /\ [][\A r \in runs' \ runs :
              r.pc = "Do" => (~found.err /\ r.schedule \in found.schedules)]_vars
    /\ [](\A g \in log.triggered :
              \E f \in Dispatched :
                  /\ f.cycle = g.cycle /\ f.schedule.ID = g.id
                  /\ f.ids = f.schedule.WatchesIDs
                  /\ g.k \in DOMAIN f.ids /\ f.ids[g.k] = g.watch)
    /\ [](\A f \in log.filtered :
              LET calls == TriggersOf(f.cycle, f.schedule.ID)
              IN  /\ {g.k : g \in calls} \subseteq DOMAIN f.ids
                  /\ Cardinality(calls) = Cardinality({g.k : g \in calls})
                  /\ ~Running(f.cycle, f.schedule.ID) =>
                         {g.k : g \in calls} = DOMAIN f.ids)
    /\ [][\A r \in runs :
              (r.pc = "send" /\ r \notin runs') => log'.triggered # log.triggered]_vars

\* A Schedule of two Watch IDs whose run goroutine has returned, with its
\* two calls of TriggerByID made.
C34_Witness ==
    \E f \in log.filtered :
        /\ f.ids = <<7, 8>>
        /\ ~Running(f.cycle, f.schedule.ID)
        /\ Cardinality(TriggersOf(f.cycle, f.schedule.ID)) = 2

\* The fields of a Hash other than last.
OtherFields(kvHash) == [field \in (DOMAIN kvHash) \ {"last"} |-> kvHash[field]]

\* C35: a command of the Update that run issues after a dispatch changes
\* nothing of the stored Schedule but its last field: the other fields of
\* the Hash and the scores of the Schedule in the start and stop indices
\* stay as they were in the store before the command.
C35_UpdateChangesOnlyLast ==
    [][\A op \in ops :
          (op.kind = "last" /\ op \notin ops' /\ op.id \in DOMAIN redis.hashes) =>
              /\ OtherFields(redis'.hashes[op.id]) = OtherFields(redis.hashes[op.id])
              /\ redis'.start[op.id] = redis.start[op.id]
              /\ redis'.stop[op.id] = redis.stop[op.id]]_vars

\* C36: Update for an id with no stored Schedule changes neither the
\* records nor the three indices, so that every record and every member of
\* the index of ids is one a Create call stored.
C36_UpdateNeverCreates ==
    /\ [][\A op \in ops :
              (op.kind = "update" /\ op \notin ops' /\ op.id \notin DOMAIN redis.hashes) =>
                  redis' = redis]_vars
    /\ [](\A id \in (DOMAIN redis.hashes) \cup redis.ids :
              \/ \E i \in DOMAIN returned : returned[i] = id
              \/ \E op \in ops : op.kind = "create" /\ op.id = id)

\* C38: when every Watch of a trigger request exists and every goroutine
\* the request started has run, each of the Watches has been evaluated
\* exactly once, and each Action ID an evaluation returned has been
\* triggered exactly once.
C38_EachExactlyOnce ==
    (/\ reply.op = "v1Trigger" /\ reply.status = 200
     /\ reply.routines = {} /\ reply.actionRoutines = {}) =>
        /\ \A i \in DOMAIN reply.watches :
               Cardinality({done \in reply.evaluated : done.watch = reply.watches[i]}) = 1
        /\ \A done \in reply.evaluated :
               \A k \in DOMAIN done.actionsIds :
                   Cardinality({call \in reply.triggered :
                                   /\ call.routine = done.routine
                                   /\ call.action = done.actionsIds[k]}) = 1

\* The entity a call of Create or of UnmarshalJSON returned or decoded.
Entity(r) ==
    IF r.op = "Create" THEN r.result.entity
    ELSE IF r.kind = "watch" THEN r.result.wrapper.Watch
    ELSE r.result.wrapper.Action

\* C39: Create and the wrapper's UnmarshalJSON, called on a JSON object,
\* do not panic: each returns an error or an entity.
C39_DecodeNeverCrashes ==
    (reply.op \in {"Create", "UnmarshalJSON"} /\ reply.json.json = "object") =>
        /\ reply.result # Panicked
        /\ reply.result.err # NilValue \/ Entity(reply) # NilValue
====
